---------------------------- MODULE Spec2Model ----------------------------
(***************************************************************************)
(* A model of the AI news aggregator (paraggit/ai-news-bot).               *)
(*                                                                         *)
(* Strings are TLA+ strings; Len, \o and SubSeq act on them as on          *)
(* sequences of characters.  Scores are exact rationals: a score of p      *)
(* points is held as the integer p * Den, where Den = 10 * word_count      *)
(* (10 when the text has no word) is a common denominator of every term    *)
(* of the relevance score (halves, tenths and multiples of 1/word_count).  *)
(* The score a call returns is rounded to two decimals and is held in      *)
(* hundredths of a point.  Python's binary floating point is not           *)
(* modelled: the arithmetic is exact.                                      *)
(***************************************************************************)
EXTENDS Integers, Sequences, FiniteSets, TLC

VARIABLES
  article,    \* the document being classified: its title and its content
  hashSeed,   \* the string-hash seed of the running interpreter process
  results,    \* what the calls of analyze_article on the document returned,
              \* oldest first; each entry holds the returned dict and, as
              \* ghost fields, the locals of the call
  batch,      \* the list of article dicts handed to ArticleFilter
  threshold,  \* the similarity threshold of the caller, in hundredths
  sims,       \* the calls of is_duplicate on two titles of the batch
  unique,     \* the calls of remove_duplicates on the batch
  ranked,     \* the calls of rank_by_quality on the batch
  clock,      \* the system clock, in ticks; rank_by_quality takes a tick for
              \* an hour, CURRENT_TIMESTAMP for its resolution
  db,         \* the database: the rows of table articles and the last id that
              \* AUTOINCREMENT gave out
  writes,     \* ghost: the save_article calls that wrote a row, oldest first
  searches,   \* the calls of search_articles
  failures,   \* the save_article calls that raised
  similar,    \* the calls of find_similar_articles
  feed,       \* the articles that the news sources return, in fetch order
  config,     \* the configuration: max_articles_per_run
  cycles,     \* the executions of fetch_and_process_news, in the order they
              \* began: where each one is and, as ghost fields, what it did
  sent,       \* ghost: the send_message calls that returned True, oldest first
  message,    \* the text handed to _split_message_intelligently
  max_length, \* the max_length handed to it
  splits      \* the calls of _split_message_intelligently on the text

analyzerVars == <<article, hashSeed, results>>

filterVars == <<batch, threshold, sims, unique, ranked>>

storeVars == <<db, writes, searches, failures, similar>>

cycleVars == <<feed, config, cycles, sent>>

splitVars == <<message, max_length, splits>>

vars ==
  <<article, hashSeed, results, batch, threshold, sims, unique, ranked, clock,
    db, writes, searches, failures, similar, feed, config, cycles, sent,
    message, max_length, splits>>

(***************************************************************************)
(* content_analyzer.py: the static lexicon.  Weights are in tenths.        *)
(***************************************************************************)
AI_TOPIC_KEYWORDS ==
  <<
    [topic |-> "Large Language Models", weight10 |-> 15,
     keywords |-> <<
       "llm", "large language model", "gpt", "bert", "transformer", "chatgpt",
       "claude", "gemini", "palm", "bard", "llama", "language model", "generative ai",
       "prompt engineering", "fine-tuning", "rlhf", "instruction tuning",
       "context window", "token", "embedding", "attention mechanism",
       "foundation model" >>],
    [topic |-> "Computer Vision", weight10 |-> 13,
     keywords |-> <<
       "computer vision", "image recognition", "object detection",
       "image segmentation", "cv", "visual", "cnn", "convolutional", "yolo", "rcnn",
       "vit", "vision transformer", "image generation", "stable diffusion", "dall-e",
       "midjourney", "imagen", "visual understanding", "image classification",
       "face recognition", "scene understanding", "video analysis" >>],
    [topic |-> "Natural Language Processing", weight10 |-> 12,
     keywords |-> <<
       "nlp", "natural language processing", "text analysis", "sentiment analysis",
       "named entity", "ner", "tokenization", "language understanding",
       "text generation", "machine translation", "question answering",
       "text classification", "semantic", "syntactic", "parsing", "pos tagging",
       "word embeddings" >>],
    [topic |-> "Machine Learning", weight10 |-> 10,
     keywords |-> <<
       "machine learning", "ml", "neural network", "deep learning",
       "supervised learning", "unsupervised learning", "reinforcement learning",
       "training", "inference", "model", "algorithm", "gradient descent",
       "backpropagation", "optimization", "regularization", "overfitting",
       "cross-validation", "hyperparameter", "feature engineering" >>],
    [topic |-> "AI Ethics & Safety", weight10 |-> 14,
     keywords |-> <<
       "ai ethics", "ai safety", "alignment", "bias", "fairness", "explainable ai",
       "interpretability", "transparency", "responsible ai", "ai governance",
       "ai regulation", "privacy", "security", "adversarial", "robustness",
       "hallucination", "ai risks", "ai benefits" >>],
    [topic |-> "Robotics & Autonomous Systems", weight10 |-> 13,
     keywords |-> <<
       "robotics", "autonomous", "self-driving", "robot", "automation", "embodied ai",
       "control systems", "sensor fusion", "slam", "path planning", "manipulation",
       "humanoid", "drone", "autonomous vehicle" >>],
    [topic |-> "AI Research", weight10 |-> 11,
     keywords |-> <<
       "arxiv", "research paper", "study", "experiment", "benchmark", "dataset",
       "sota", "state-of-the-art", "evaluation", "ablation", "methodology",
       "architecture", "novel approach", "breakthrough", "innovation" >>],
    [topic |-> "AI Applications", weight10 |-> 9,
     keywords |-> <<
       "ai application", "use case", "deployment", "production", "enterprise ai",
       "ai integration", "ai adoption", "real-world", "practical", "implementation",
       "solution" >>],
    [topic |-> "AI Companies & Business", weight10 |-> 10,
     keywords |-> <<
       "openai", "google ai", "deepmind", "anthropic", "meta ai", "microsoft ai",
       "amazon ai", "nvidia", "hugging face", "startup", "funding", "investment",
       "acquisition", "partnership", "product launch", "announcement" >>],
    [topic |-> "Multimodal AI", weight10 |-> 14,
     keywords |-> <<
       "multimodal", "vision-language", "text-to-image", "image-to-text",
       "video understanding", "audio-visual", "cross-modal", "unified model",
       "multi-task" >>]
  >>

HIGH_VALUE_KEYWORDS ==
  {
    "breakthrough", "revolutionary", "novel", "state-of-the-art", "sota", "benchmark",
    "outperform", "significant", "advancement", "innovation", "introduces", "proposes",
    "demonstrates", "achieves", "improves" }

RESEARCH_KEYWORDS ==
  {
    "research", "study", "paper", "arxiv", "published", "journal", "conference",
    "proceedings", "experiment", "findings", "results", "methodology", "dataset",
    "evaluation", "analysis", "empirical", "theoretical", "algorithm", "framework",
    "approach", "method", "peer-reviewed", "citation", "authors", "abstract",
    "conclusion", "hypothesis", "validate", "reproduce", "ablation", "baseline",
    "neurips", "icml", "iclr", "cvpr", "acl", "emnlp", "aaai", "ijcai" }

BREAKTHROUGH_KEYWORDS ==
  {
    "breakthrough", "discovery", "discovered", "invention", "invented", "novel",
    "first-time", "first time", "unprecedented", "revolutionary", "groundbreaking",
    "milestone", "significant advancement", "major advancement", "new method",
    "new approach", "new technique", "new algorithm", "outperforms",
    "state-of-the-art", "sota", "record-breaking", "achieves", "demonstrates",
    "proposes", "introduces", "presents", "pioneering", "innovative", "innovation",
    "cutting-edge", "transformative", "game-changing", "paradigm shift" }

INVESTMENT_KEYWORDS ==
  {
    "funding", "investment", "invested", "funding round", "series a", "series b",
    "series c", "venture capital", "vc", "raised", "valuation", "investor",
    "acquisition", "acquired", "merger", "bought", "purchase", "deal", "partnership",
    "partners with", "collaboration announcement", "ipo", "stock", "market cap",
    "shareholders", "equity", "billion dollar", "million dollar", "$", "raises $",
    "valued at", "seed funding", "angel investor", "startup funding", "financial",
    "revenue", "profit", "earnings", "quarterly", "ceo appointed", "executive",
    "leadership change", "hire", "layoff", "workforce reduction", "restructuring" }

PRODUCT_LAUNCH_KEYWORDS ==
  {
    "product launch", "launching", "releases", "released", "unveiled", "announces",
    "announcement", "available now", "coming soon", "price", "pricing", "subscription",
    "premium", "pro version", "beta", "early access", "sign up", "waitlist" }

(***************************************************************************)
(* Arithmetic and collection helpers                                       *)
(***************************************************************************)
Min(a, b) == IF a <= b THEN a ELSE b

Max(a, b) == IF a >= b THEN a ELSE b

Range(seq) == {seq[i] : i \in DOMAIN seq}

RECURSIVE SumOver(_, _)
SumOver(f, S) ==
  IF S = {} THEN 0
  ELSE LET x == CHOOSE y \in S : TRUE IN f[x] + SumOver(f, S \ {x})

\* ContentAnalyzer.__init__: the union of the keywords of every topic
ai_keywords ==
  UNION {Range(AI_TOPIC_KEYWORDS[i].keywords) : i \in DOMAIN AI_TOPIC_KEYWORDS}

\* _calculate_relevance_score, Score 5: the terms looked for in the title
TITLE_TERMS == {"ai", "artificial intelligence", "machine learning", "llm"}

all_keywords ==
  ai_keywords \cup HIGH_VALUE_KEYWORDS \cup RESEARCH_KEYWORDS \cup BREAKTHROUGH_KEYWORDS
    \cup INVESTMENT_KEYWORDS \cup PRODUCT_LAUNCH_KEYWORDS

\* The length of the longest keyword of the lexicon
MaxKeywordLen ==
  LET lengths == {Len(kw) : kw \in all_keywords \cup TITLE_TERMS}
  IN  CHOOSE n \in lengths : \A m \in lengths : m <= n

(***************************************************************************)
(* Strings: str.lower, `kw in text`, str.split.                            *)
(***************************************************************************)
CharAt(s, i) == SubSeq(s, i, i)

UpperCaseLetters == "ABCDEFGHIJKLMNOPQRSTUVWXYZ"

LowerCaseLetters == "abcdefghijklmnopqrstuvwxyz"

UpperCaseSet == {CharAt(UpperCaseLetters, i) : i \in 1..Len(UpperCaseLetters)}

LowerChar(c) ==
  IF c \in UpperCaseSet
    THEN CharAt(LowerCaseLetters,
                CHOOSE i \in 1..Len(UpperCaseLetters) : CharAt(UpperCaseLetters, i) = c)
    ELSE c

\* str.lower, one character at a time (the string is halved to keep the
\* recursion shallow)
RECURSIVE lower(_)
lower(s) ==
  IF Len(s) = 0 THEN ""
  ELSE IF Len(s) = 1 THEN LowerChar(s)
  ELSE LET half == Len(s) \div 2
       IN  lower(SubSeq(s, 1, half)) \o lower(SubSeq(s, half + 1, Len(s)))

\* Every substring of s of at most n characters
Substrings(s, n) ==
  {SubSeq(s, i, Min(Len(s), i + k - 1)) : i \in 1..(Len(s) + 1), k \in 0..n}

\* A string that is searched for keywords is held with the set of its substrings
\* that are no longer than the longest keyword
Text(s) == [chars |-> s, parts |-> Substrings(s, MaxKeywordLen)]

\* Python's `kw in text` on strings: kw occurs in text as a substring.
IsSubstring(kw, text) == kw \in text.parts

IsSpace(c) == c \in {" ", "\t", "\n", "\r", "\f"}

\* len(text.split()): the number of maximal runs of non-whitespace characters.
WordCount(s) ==
  Cardinality({i \in 1..Len(s) :
                 /\ ~IsSpace(CharAt(s, i))
                 /\ (i = 1 \/ IsSpace(CharAt(s, i - 1)))})

\* sum(1 for kw in kws if kw in text), kws a set
CountMatches(kws, text) == Cardinality({kw \in kws : IsSubstring(kw, text)})

\* sum(1 for kw in kws if kw in text), kws a list (an entry listed twice counts twice)
CountListMatches(kws, text) ==
  Cardinality({i \in DOMAIN kws : IsSubstring(kws[i], text)})


(***************************************************************************)
(* ContentAnalyzer                                                         *)
(***************************************************************************)
\* The common denominator of the score of a text: p points are held as p * Den.
Den(text_lower) ==
  LET word_count == WordCount(text_lower.chars)
  IN  10 * (IF word_count > 0 THEN word_count ELSE 1)

\* _is_investment_news reading its own comment, "more than 5 matches", as > 5
_is_investment_news_MoreThan5(title, content, text_lower) ==
  LET title_lower == Text(lower(title))
      title_investment_matches == CountMatches(INVESTMENT_KEYWORDS, title_lower)
      content_investment_matches == CountMatches(INVESTMENT_KEYWORDS, text_lower)
      product_launch_matches == CountMatches(PRODUCT_LAUNCH_KEYWORDS, text_lower)
  IN  IF title_investment_matches >= 2 THEN TRUE
      ELSE IF content_investment_matches > 5 THEN TRUE
      ELSE IF content_investment_matches >= 2 /\ product_launch_matches >= 2 THEN TRUE
      ELSE FALSE

_is_investment_news(title, content, text_lower) ==
  LET title_lower == Text(lower(title))
      title_investment_matches == CountMatches(INVESTMENT_KEYWORDS, title_lower)
      content_investment_matches == CountMatches(INVESTMENT_KEYWORDS, text_lower)
      product_launch_matches == CountMatches(PRODUCT_LAUNCH_KEYWORDS, text_lower)
  IN  IF title_investment_matches >= 2 THEN TRUE
      ELSE IF content_investment_matches >= 5 THEN TRUE
      ELSE IF content_investment_matches >= 2 /\ product_launch_matches >= 2 THEN TRUE
      ELSE FALSE

\* _is_research_breakthrough taking "published" for a marker too, as Score 6 does
_is_research_breakthrough_PublishedMarker(text_lower) ==
  LET breakthrough_matches == CountMatches(BREAKTHROUGH_KEYWORDS, text_lower)
      research_matches == CountMatches(RESEARCH_KEYWORDS, text_lower)
  IN  IF breakthrough_matches >= 2 THEN TRUE
      ELSE IF breakthrough_matches >= 1 /\ research_matches >= 3 THEN TRUE
      ELSE IF (IsSubstring("arxiv", text_lower) \/ IsSubstring("published", text_lower))
              /\ research_matches >= 2 THEN TRUE
      ELSE FALSE

_is_research_breakthrough(text_lower) ==
  LET breakthrough_matches == CountMatches(BREAKTHROUGH_KEYWORDS, text_lower)
      research_matches == CountMatches(RESEARCH_KEYWORDS, text_lower)
  IN  IF breakthrough_matches >= 2 THEN TRUE
      ELSE IF breakthrough_matches >= 1 /\ research_matches >= 3 THEN TRUE
      ELSE IF IsSubstring("arxiv", text_lower) /\ research_matches >= 2 THEN TRUE
      ELSE FALSE

\* Score 1: title keyword matches, min(len(keyword) / 2, 5) each, capped at 30
TitleKeywordScore(title_lower, den) ==
  LET matched == {keyword \in ai_keywords : IsSubstring(keyword, title_lower)}
      points == [keyword \in matched |-> Min(Len(keyword) * (den \div 2), 5 * den)]
  IN  Min(SumOver(points, matched), 30 * den)

\* Score 2 taking a text without words for a text of full density
ContentDensityScore_NoWordsFullDensity(text_lower, den) ==
  LET content_matches == CountMatches(ai_keywords, text_lower)
      word_count == WordCount(text_lower.chars)
      density == (content_matches * 100 * den) \div word_count
  IN  IF word_count > 0 THEN Min(density * 3, 30 * den) ELSE 30 * den

\* Score 2 without its cap
ContentDensityScore_Uncapped(text_lower, den) ==
  LET content_matches == CountMatches(ai_keywords, text_lower)
      word_count == WordCount(text_lower.chars)
      density == (content_matches * 100 * den) \div word_count
  IN  IF word_count > 0 THEN density * 3 ELSE 0

\* Score 2: keyword density per 100 words, times 3, capped at 30
ContentDensityScore(text_lower, den) ==
  LET content_matches == CountMatches(ai_keywords, text_lower)
      word_count == WordCount(text_lower.chars)
      density == (content_matches * 100 * den) \div word_count
  IN  IF word_count > 0 THEN Min(density * 3, 30 * den) ELSE 0

\* Score 3: matches * weight summed over the topics, capped at 20
TopicCategoryScore(text_lower, den) ==
  LET matches == [i \in DOMAIN AI_TOPIC_KEYWORDS |->
                    CountListMatches(AI_TOPIC_KEYWORDS[i].keywords, text_lower)]
      weighted == [i \in DOMAIN AI_TOPIC_KEYWORDS |->
                    IF matches[i] > 0
                      THEN matches[i] * AI_TOPIC_KEYWORDS[i].weight10 * (den \div 10)
                      ELSE 0]
      topic_score == SumOver(weighted, DOMAIN AI_TOPIC_KEYWORDS)
  IN  Min(topic_score, 20 * den)

\* Score 4: 3 points per high-value keyword, capped at 15
HighValueScore(text_lower, den) ==
  LET high_value_matches == CountMatches(HIGH_VALUE_KEYWORDS, text_lower)
  IN  Min(high_value_matches * 3, 15) * den

\* Score 5: title prominence bonus
TitleProminenceBonus(title_lower, den) ==
  IF \E kw \in TITLE_TERMS : IsSubstring(kw, title_lower)
    THEN 5 * den
    ELSE 0

\* Score 6: research content boost, and the extra bonus for ArXiv or published papers
ResearchBoost(text_lower, den) ==
  LET research_matches == CountMatches(RESEARCH_KEYWORDS, text_lower)
      research_boost == Min(research_matches * 2, 10)
  IN  IF research_matches > 0
        THEN research_boost * den
             + (IF IsSubstring("arxiv", text_lower) \/ IsSubstring("published", text_lower)
                  THEN 5 * den
                  ELSE 0)
        ELSE 0

\* Score 7: breakthrough keywords, 3 points each, capped at 15
BreakthroughBoost(text_lower, den) ==
  LET breakthrough_matches == CountMatches(BREAKTHROUGH_KEYWORDS, text_lower)
      breakthrough_boost == Min(breakthrough_matches * 3, 15)
  IN  IF breakthrough_matches > 0 THEN breakthrough_boost * den ELSE 0

_calculate_relevance_score(title, content, text_lower) ==
  LET den == Den(text_lower)
      title_lower == Text(lower(title))
      score == TitleKeywordScore(title_lower, den)
               + ContentDensityScore(text_lower, den)
               + TopicCategoryScore(text_lower, den)
               + HighValueScore(text_lower, den)
               + TitleProminenceBonus(title_lower, den)
               + ResearchBoost(text_lower, den)
               + BreakthroughBoost(text_lower, den)
  IN  Min(score, 100 * den)

\* _identify_topics taking one matching keyword for enough
_identify_topics_AnyMatch(text_lower) ==
  LET Identified(i) ==
        CountListMatches(AI_TOPIC_KEYWORDS[i].keywords, text_lower) >= 1
      identified == SelectSeq([i \in DOMAIN AI_TOPIC_KEYWORDS |-> i], Identified)
  IN  [k \in DOMAIN identified |-> AI_TOPIC_KEYWORDS[identified[k]].topic]

_identify_topics(text_lower) ==
  LET Identified(i) ==
        CountListMatches(AI_TOPIC_KEYWORDS[i].keywords, text_lower) >= 2
      identified == SelectSeq([i \in DOMAIN AI_TOPIC_KEYWORDS |-> i], Identified)
  IN  [k \in DOMAIN identified |-> AI_TOPIC_KEYWORDS[identified[k]].topic]

(***************************************************************************)
(* Iterating a Python set of strings visits them in hash-table order, and  *)
(* the hash of a string depends on the seed the interpreter process drew   *)
(* when it started.  The order is modelled as ascending seeded hash.       *)
(***************************************************************************)
Alphabet == "abcdefghijklmnopqrstuvwxyz -$"

CharCode(c) ==
  IF \E i \in 1..Len(Alphabet) : CharAt(Alphabet, i) = c
    THEN CHOOSE i \in 1..Len(Alphabet) : CharAt(Alphabet, i) = c
    ELSE 0

RECURSIVE StrHash(_, _)
StrHash(s, h) ==
  IF s = "" THEN h
  ELSE StrHash(SubSeq(s, 2, Len(s)), (h * 31 + CharCode(CharAt(s, 1))) % 15485863)

RECURSIVE ByHash(_)
ByHash(hashed) ==
  IF hashed = {} THEN <<>>
  ELSE LET first == CHOOSE p \in hashed : \A q \in hashed : p[1] <= q[1]
       IN  <<first[2]>> \o ByHash(hashed \ {first})

SetIteration(S, seed) == ByHash({<<StrHash(x, seed), x>> : x \in S})

\* _extract_keywords without the [:20]
_extract_keywords_Untruncated(title, content, text_lower, seed) ==
  LET found_keywords ==
        {keyword \in ai_keywords \cup HIGH_VALUE_KEYWORDS
                     \cup RESEARCH_KEYWORDS \cup BREAKTHROUGH_KEYWORDS :
           IsSubstring(keyword, text_lower)}
      title_lower == Text(lower(title))
      InTitle(kw) == IsSubstring(kw, title_lower)
      NotInTitle(kw) == ~IsSubstring(kw, title_lower)
      order == SetIteration(found_keywords, seed)
  IN  SelectSeq(order, InTitle) \o SelectSeq(order, NotInTitle)

_extract_keywords(title, content, text_lower, seed) ==
  LET found_keywords ==
        {keyword \in ai_keywords \cup HIGH_VALUE_KEYWORDS
                     \cup RESEARCH_KEYWORDS \cup BREAKTHROUGH_KEYWORDS :
           IsSubstring(keyword, text_lower)}
      title_lower == Text(lower(title))
      InTitle(kw) == IsSubstring(kw, title_lower)
      NotInTitle(kw) == ~IsSubstring(kw, title_lower)
      order == SetIteration(found_keywords, seed)
      prioritized == SelectSeq(order, InTitle)
      regular == SelectSeq(order, NotInTitle)
  IN  SubSeq(prioritized \o regular, 1, Min(20, Len(prioritized) + Len(regular)))

\* The adjustments without the ceiling of the boost
ApplyScoreAdjustments_NoCeiling(relevance_score, is_investment_news, is_research_breakthrough, den) ==
  LET penalized ==
        IF is_investment_news /\ ~is_research_breakthrough
          THEN [score |-> Max(0, relevance_score - 50 * den), applied |-> <<"penalty">>]
          ELSE [score |-> relevance_score, applied |-> <<>>]
  IN  IF is_research_breakthrough
        THEN [score |-> penalized.score + 15 * den,
              applied |-> Append(penalized.applied, "boost")]
        ELSE penalized

\* The adjustments without the floor of the penalty
ApplyScoreAdjustments_NoFloor(relevance_score, is_investment_news, is_research_breakthrough, den) ==
  LET penalized ==
        IF is_investment_news /\ ~is_research_breakthrough
          THEN [score |-> relevance_score - 50 * den, applied |-> <<"penalty">>]
          ELSE [score |-> relevance_score, applied |-> <<>>]
  IN  IF is_research_breakthrough
        THEN [score |-> Min(100 * den, penalized.score + 15 * den),
              applied |-> Append(penalized.applied, "boost")]
        ELSE penalized

\* The adjustments with the penalty applied to every investment article, a
\* breakthrough or not
ApplyScoreAdjustments_AlwaysPenalize(relevance_score, is_investment_news, is_research_breakthrough, den) ==
  LET penalized ==
        IF is_investment_news
          THEN [score |-> Max(0, relevance_score - 50 * den), applied |-> <<"penalty">>]
          ELSE [score |-> relevance_score, applied |-> <<>>]
  IN  IF is_research_breakthrough
        THEN [score |-> Min(100 * den, penalized.score + 15 * den),
              applied |-> Append(penalized.applied, "boost")]
        ELSE penalized

\* analyze_article, the penalty and the boost
ApplyScoreAdjustments(relevance_score, is_investment_news, is_research_breakthrough, den) ==
  LET penalized ==
        IF is_investment_news /\ ~is_research_breakthrough
          THEN [score |-> Max(0, relevance_score - 50 * den), applied |-> <<"penalty">>]
          ELSE [score |-> relevance_score, applied |-> <<>>]
  IN  IF is_research_breakthrough
        THEN [score |-> Min(100 * den, penalized.score + 15 * den),
              applied |-> Append(penalized.applied, "boost")]
        ELSE penalized

\* round(score, 2) of the score num / den, in hundredths; a tie goes to the even
\* hundredth
Round2(num, den) ==
  LET q == (100 * num) \div den
      r == (100 * num) % den
  IN  IF 2 * r > den THEN q + 1
      ELSE IF 2 * r = den THEN q + (q % 2)
      ELSE q

\* The locals of analyze_article when it returns.  base_score is what
\* _calculate_relevance_score returned and applied the adjustments made to it, in
\* order.  Three ghost fields describe the input: word_count, and the lexicon
\* keywords that occur in the lower-cased title and in the lower-cased text.
AnalyzeLocals(title, content, seed) ==
  LET text_lower == Text(lower(title \o " " \o content))
      den == Den(text_lower)
      is_investment_news == _is_investment_news(title, content, text_lower)
      is_research_breakthrough == _is_research_breakthrough(text_lower)
      base_score == _calculate_relevance_score(title, content, text_lower)
      adjusted == ApplyScoreAdjustments(base_score, is_investment_news,
                                        is_research_breakthrough, den)
      relevance_score == adjusted.score
      topics == _identify_topics(text_lower)
      keywords == _extract_keywords(title, content, text_lower, seed)
      is_ai_related ==
        /\ (relevance_score >= 30 * den \/ Len(topics) > 0)
        /\ ~(is_investment_news /\ ~is_research_breakthrough)
      title_lower == Text(lower(title))
  IN  [den |-> den, base_score |-> base_score,
       applied |-> adjusted.applied, relevance_score |-> relevance_score,
       topics |-> topics, keywords |-> keywords, is_ai_related |-> is_ai_related,
       is_research_breakthrough |-> is_research_breakthrough,
       is_investment_news |-> is_investment_news,
       word_count |-> WordCount(text_lower.chars),
       in_title |-> {kw \in all_keywords \cup TITLE_TERMS : IsSubstring(kw, title_lower)},
       in_text |-> {kw \in all_keywords : IsSubstring(kw, text_lower)}]

\* The dict analyze_article returns; relevance_score in hundredths of a point
analyze_article(locals) ==
  [relevance_score |-> Round2(locals.relevance_score, locals.den),
   topics |-> locals.topics,
   keywords |-> locals.keywords,
   is_ai_related |-> locals.is_ai_related,
   is_research_breakthrough |-> locals.is_research_breakthrough,
   is_investment_news |-> locals.is_investment_news]

(***************************************************************************)
(* The documents: a title is up to MaxTitleFragments of the title          *)
(* fragments and a body up to MaxBodyFragments of the body fragments, in   *)
(* the order listed and joined by single spaces.                           *)
(***************************************************************************)
MaxTitleFragments == 1

MaxBodyFragments == 2

NumHashSeeds == 2

MaxCalls == 2

TitleFragments ==
  << "AI",
     "Startup Raises $50M",
     "OpenAI Announces Breakthrough in Language Model Reasoning" >>

BodyFragments ==
  << "cnn inference significant outperform advancement improves journal",
     "x x x x x x x x x x x x x x x x x x x x x x x x x x x x x x x x x x x x x x x x x x x x x x x x x x x x x x x x x x x x x",
     "published paper",
     "arxiv",
     "funding valuation investor",
     "equity revenue",
     "pricing beta",
     "gpt bert llama palm bard gemini claude llm nlp cnn yolo rcnn vit slam sota arxiv rlhf study paper novel model" >>

RECURSIVE JoinFrom(_, _, _)
JoinFrom(fragments, chosen, i) ==
  IF i > Len(fragments) THEN ""
  ELSE LET rest == JoinFrom(fragments, chosen, i + 1)
       IN  IF i \notin chosen THEN rest
           ELSE IF rest = "" THEN fragments[i]
           ELSE fragments[i] \o " " \o rest

Texts(fragments, max) ==
  {JoinFrom(fragments, chosen, 1) :
     chosen \in {c \in SUBSET DOMAIN fragments : Cardinality(c) <= max}}

Titles == Texts(TitleFragments, MaxTitleFragments)

Bodies == Texts(BodyFragments, MaxBodyFragments)

HashSeeds == 1..NumHashSeeds

(***************************************************************************)
(* Classifying one document.                                               *)
(***************************************************************************)
Call(a, seed) ==
  LET locals == AnalyzeLocals(a.title, a.content, seed)
  IN  [ret |-> analyze_article(locals), locals |-> locals]

\* The database is empty and nothing was asked of it
StoreIdle ==
  /\ db = [articles |-> {}, seq |-> 0]
  /\ writes = <<>>
  /\ searches = <<>>
  /\ failures = <<>>
  /\ similar = <<>>

\* No message is being sent
SplitIdle ==
  /\ message = ""
  /\ max_length = 4096
  /\ splits = <<>>

\* The aggregator has not been started
CycleIdle ==
  /\ feed = <<>>
  /\ config = [max_articles_per_run |-> 15]
  /\ cycles = <<>>
  /\ sent = <<>>

\* No batch is being filtered
FilterIdle ==
  /\ batch = <<>>
  /\ threshold = 70
  /\ sims = <<>>
  /\ unique = <<>>
  /\ ranked = <<>>

Init ==
  /\ article \in [title : Titles, content : Bodies]
  /\ hashSeed \in HashSeeds
  /\ results = <<>>
  /\ FilterIdle
  /\ StoreIdle
  /\ CycleIdle
  /\ SplitIdle
  /\ clock = 0

\* The first analyze_article(title, content) on the document
Classify ==
  /\ results = <<>>
  /\ results' = <<Call(article, hashSeed)>>
  /\ UNCHANGED <<splitVars, cycleVars, article, hashSeed, filterVars, clock, storeVars>>

\* A later analyze_article(title, content) on the same document
ClassifyAgain ==
  /\ Len(results) \in 1..(MaxCalls - 1)
  /\ results' = Append(results, Call(article, hashSeed))
  /\ UNCHANGED <<splitVars, cycleVars, article, hashSeed, filterVars, clock, storeVars>>

\* The interpreter process ends and a new one starts: Python draws a new string-hash
\* seed (PYTHONHASHSEED is random unless set); what was returned before is kept
RestartProcess ==
  /\ Len(results) \in 1..(MaxCalls - 1)
  /\ hashSeed' \in HashSeeds \ {hashSeed}
  /\ UNCHANGED <<splitVars, cycleVars, article, results, filterVars, clock, storeVars>>

NextAnalyzer == Classify

SpecAnalyzer == Init /\ [][NextAnalyzer]_vars

NextRerun == Classify \/ ClassifyAgain \/ RestartProcess

SpecRerun == Init /\ [][NextRerun]_vars

(***************************************************************************)
(* content_analyzer.py: title similarity.  A similarity is held as the     *)
(* exact fraction num / den; a threshold is in hundredths.                  *)
(***************************************************************************)
WordChars == "abcdefghijklmnopqrstuvwxyz0123456789_"

WordCharSet == {CharAt(WordChars, i) : i \in 1..Len(WordChars)}

\* set(re.findall(r'\w+', s)) for a lower-cased s: the maximal runs of word
\* characters from position i on, word being the run that ends before i
RECURSIVE FindAllWords(_, _, _)
FindAllWords(s, i, word) ==
  LET done == IF word = "" THEN {} ELSE {word}
  IN  IF i > Len(s) THEN done
      ELSE IF CharAt(s, i) \in WordCharSet
             THEN FindAllWords(s, i + 1, word \o CharAt(s, i))
             ELSE done \cup FindAllWords(s, i + 1, "")

stop_words ==
  {"a", "an", "the", "and", "or", "but", "in", "on", "at", "to", "for",
   "of", "with", "by", "from", "as", "is", "was", "are", "were", "be",
   "been", "being", "have", "has", "had", "do", "does", "did", "will",
   "would", "should", "could", "may", "might", "must", "can"}

\* The words of a text that calculate_similarity compares
SignificantWords(text) == FindAllWords(lower(text), 1, "") \ stop_words

\* calculate_similarity dividing by the words of the first text
calculate_similarity_OverFirstText(text1, text2) ==
  LET words1 == SignificantWords(text1)
      words2 == SignificantWords(text2)
      intersection == words1 \cap words2
  IN  IF words1 = {} \/ words2 = {} THEN [num |-> 0, den |-> 1]
      ELSE [num |-> Cardinality(intersection), den |-> Cardinality(words1)]

calculate_similarity(text1, text2) ==
  LET words1 == SignificantWords(text1)
      words2 == SignificantWords(text2)
      intersection == words1 \cap words2
      union == words1 \cup words2
  IN  IF words1 = {} \/ words2 = {} THEN [num |-> 0, den |-> 1]
      ELSE IF union # {}
             THEN [num |-> Cardinality(intersection), den |-> Cardinality(union)]
             ELSE [num |-> 0, den |-> 1]

\* similarity >= threshold
is_duplicate(title1, title2, similarity_threshold) ==
  LET similarity == calculate_similarity(title1, title2)
  IN  similarity.num * 100 >= similarity_threshold * similarity.den

(***************************************************************************)
(* search.py: ArticleFilter.  An article dict is a record; a key the dict  *)
(* does not have is a field the record does not have.                      *)
(***************************************************************************)
\* The loop of remove_duplicates from articles[i] on
RECURSIVE UniqueFrom(_, _, _, _)
UniqueFrom(articles, i, unique_articles, similarity_threshold) ==
  IF i > Len(articles) THEN unique_articles
  ELSE LET duplicate ==
             \E k \in DOMAIN unique_articles :
               is_duplicate(articles[i].title, unique_articles[k].title,
                            similarity_threshold)
       IN  UniqueFrom(articles, i + 1,
                      IF duplicate THEN unique_articles
                                   ELSE Append(unique_articles, articles[i]),
                      similarity_threshold)

\* The loop of a remove_duplicates that compares an article with every earlier
\* article, kept or not: seen holds the articles gone through
RECURSIVE UniqueFromSeen(_, _, _, _)
UniqueFromSeen(articles, i, unique_articles, similarity_threshold) ==
  IF i > Len(articles) THEN unique_articles
  ELSE LET duplicate ==
             \E k \in 1..(i - 1) :
               is_duplicate(articles[i].title, articles[k].title,
                            similarity_threshold)
       IN  UniqueFromSeen(articles, i + 1,
                          IF duplicate THEN unique_articles
                                       ELSE Append(unique_articles, articles[i]),
                          similarity_threshold)

\* remove_duplicates comparing with every earlier article
remove_duplicates_AgainstAllSeen(articles, similarity_threshold) ==
  IF articles = <<>> THEN <<>>
  ELSE UniqueFromSeen(articles, 2, <<articles[1]>>, similarity_threshold)

\* remove_duplicates putting each new unique article in front
remove_duplicates_NewestFirst(articles, similarity_threshold) ==
  LET unique_articles ==
        IF articles = <<>> THEN <<>>
        ELSE UniqueFrom(articles, 2, <<articles[1]>>, similarity_threshold)
  IN  [k \in DOMAIN unique_articles |->
         unique_articles[Len(unique_articles) + 1 - k]]

remove_duplicates(articles, similarity_threshold) ==
  IF articles = <<>> THEN <<>>
  ELSE UniqueFrom(articles, 2, <<articles[1]>>, similarity_threshold)

\* Times are in hours.  A quality score of p points is held as the integer
\* p * QualityUnit: a relevance_score is in hundredths of a point and an hour
\* of age costs a twelfth of a point.
QualityUnit == 1200

trusted_sources == {"ArXiv", "OpenAI", "Google AI", "DeepMind"}

\* calculate_quality_score without the bonus for trusted sources
calculate_quality_score_NoTrustBonus(a, now) ==
  LET relevance ==
        IF "relevance_score" \in DOMAIN a THEN a.relevance_score * 12 ELSE 0
      age_hours == now - a.processed_at
      recency_bonus ==
        IF "processed_at" \in DOMAIN a
          THEN Max(0, 20 * QualityUnit - ((age_hours * QualityUnit) \div 24) * 2)
          ELSE 0
  IN  relevance + recency_bonus

\* The key of the sort for article dict a, datetime.now() returning now
calculate_quality_score(a, now) ==
  LET relevance ==
        IF "relevance_score" \in DOMAIN a THEN a.relevance_score * 12 ELSE 0
      age_hours == now - a.processed_at
      recency_bonus ==
        IF "processed_at" \in DOMAIN a
          THEN Max(0, 20 * QualityUnit - ((age_hours * QualityUnit) \div 24) * 2)
          ELSE 0
      trust_bonus ==
        IF "source" \in DOMAIN a /\ a.source \in trusted_sources
          THEN 10 * QualityUnit
          ELSE 0
  IN  relevance + recency_bonus + trust_bonus

\* sorted(articles, key=..., reverse=True) for the keys computed: a stable sort,
\* an article goes after the articles of greater key and after the earlier
\* articles of equal key
SortedDescending(articles, keys) ==
  LET Position(i) ==
        1 + Cardinality({j \in DOMAIN articles :
                           keys[j] > keys[i] \/ (keys[j] = keys[i] /\ j < i)})
  IN  [p \in DOMAIN articles |->
         articles[CHOOSE i \in DOMAIN articles : Position(i) = p]]

\* sorted(articles, key=...) without reverse=True
SortedAscending(articles, keys) ==
  LET Position(i) ==
        1 + Cardinality({j \in DOMAIN articles :
                           keys[j] < keys[i] \/ (keys[j] = keys[i] /\ j < i)})
  IN  [p \in DOMAIN articles |->
         articles[CHOOSE i \in DOMAIN articles : Position(i) = p]]

\* rank_by_quality sorting by ascending quality
rank_by_quality_Ascending(articles, reads) ==
  LET keys == [i \in DOMAIN articles |-> calculate_quality_score(articles[i], reads[i])]
  IN  [ret |-> SortedAscending(articles, keys), keys |-> keys, reads |-> reads]

\* rank_by_quality(articles): the key of articles[i] is computed once, in list
\* order, and reads the clock as reads[i].  keys and reads are ghost fields.
rank_by_quality(articles, reads) ==
  LET keys == [i \in DOMAIN articles |-> calculate_quality_score(articles[i], reads[i])]
  IN  [ret |-> SortedDescending(articles, keys), keys |-> keys, reads |-> reads]

(***************************************************************************)
(* Filtering one batch.  NewArticles are article dicts as                  *)
(* fetch_and_process_news builds them, StoredArticles are dicts as         *)
(* search_articles returns them (the keys ArticleFilter reads).            *)
(***************************************************************************)
MaxBatch == 3

MaxClockDrift == 1

\* What the clock shows when the batch is handed over
StartClock == 1000

Thresholds == {70, 80}

NewArticles ==
  {[title |-> "New GPT model released", url |-> "u1", relevance_score |-> 4000],
   [title |-> "New GPT model released today", url |-> "u2", relevance_score |-> 9000],
   [title |-> "Robotics breakthrough in 2024", url |-> "u3", relevance_score |-> 4000],
   [title |-> "GPT model released today", url |-> "u4", relevance_score |-> 4000],
   [title |-> "The Is Of", url |-> "u5", relevance_score |-> 4000],
   [title |-> "new gpt-model, RELEASED!", url |-> "u6", relevance_score |-> 4000]}

StoredArticle(id, source, relevance_score, processed_at) ==
  [id |-> id, url |-> "u", title |-> "AI", source |-> source,
   relevance_score |-> relevance_score, processed_at |-> processed_at]

StoredArticles ==
  {StoredArticle(1, "TechCrunch AI", 5000, 988),
   StoredArticle(2, "TechCrunch AI", 5000, 976),
   StoredArticle(3, "TechCrunch AI", 5000, 700),
   StoredArticle(4, "TechCrunch AI", 5000, 600),
   StoredArticle(1, "ArXiv", 5000, 988),
   StoredArticle(6, "TechCrunch AI", 5500, 600),
   StoredArticle(7, "TechCrunch AI", 5000, 989)}

\* The lists of at most max articles of a pool
Lists(pool, max) == UNION {[1..n -> pool] : n \in 0..max}

Batches == Lists(NewArticles, MaxBatch) \cup Lists(StoredArticles, MaxBatch)

\* What datetime.now() can return in n successive calls that begin at from
ClockReads(n, from) ==
  {reads \in [1..n -> from..(from + MaxClockDrift)] :
     \A i \in 1..(n - 1) : reads[i] <= reads[i + 1]}

InitFilter ==
  /\ article = [title |-> "", content |-> ""]
  /\ hashSeed = 1
  /\ results = <<>>
  /\ batch \in Batches
  /\ threshold \in Thresholds
  /\ sims = <<>>
  /\ unique = <<>>
  /\ ranked = <<>>
  /\ clock = StartClock
  /\ StoreIdle
  /\ CycleIdle
  /\ SplitIdle

NotFiltered == sims = <<>> /\ unique = <<>> /\ ranked = <<>>

\* analyzer.is_duplicate(title1, title2, threshold) on two titles of the batch;
\* words1 and words2 are ghost fields
IsDuplicate ==
  /\ NotFiltered
  /\ \E i, j \in DOMAIN batch :
       sims' = <<[text1 |-> batch[i].title, text2 |-> batch[j].title,
                  similarity |-> calculate_similarity(batch[i].title, batch[j].title),
                  ret |-> is_duplicate(batch[i].title, batch[j].title, threshold),
                  words1 |-> SignificantWords(batch[i].title),
                  words2 |-> SignificantWords(batch[j].title)]>>
  /\ UNCHANGED <<splitVars, cycleVars, analyzerVars, batch, threshold, unique, ranked, clock, storeVars>>

\* article_filter.remove_duplicates(batch, threshold)
RemoveDuplicates ==
  /\ NotFiltered
  /\ unique' = <<[ret |-> remove_duplicates(batch, threshold)]>>
  /\ UNCHANGED <<splitVars, cycleVars, analyzerVars, batch, threshold, sims, ranked, clock, storeVars>>

\* article_filter.rank_by_quality(batch): the clock moves on while the keys are
\* computed
RankByQuality ==
  /\ NotFiltered
  /\ \E reads \in ClockReads(Len(batch), clock) :
       /\ ranked' = <<rank_by_quality(batch, reads)>>
       /\ clock' = IF reads = <<>> THEN clock ELSE reads[Len(reads)]
  /\ UNCHANGED <<splitVars, cycleVars, analyzerVars, batch, threshold, sims, unique, storeVars>>

NextFilter == IsDuplicate \/ RemoveDuplicates \/ RankByQuality

SpecFilter == InitFilter /\ [][NextFilter]_vars

(***************************************************************************)
(* database.py: table articles.  A row is a record; a column that is NULL  *)
(* is a field the record does not have, and so is an argument that is None *)
(* and an absent key of a dict.  Timestamps are clock values.  Of the      *)
(* columns that search_articles does not filter on, title stands for all.  *)
(***************************************************************************)
\* A save_article that adds a row whether the url is stored or not
save_article_InsertAgain(d, args, now) ==
  LET id == d.seq + 1
      row == args @@ [id |-> id, processed_at |-> now, created_at |-> now]
  IN  [articles |-> d.articles \cup {row}, seq |-> id]

\* A save_article that leaves the processed_at of a stored url as it is
save_article_KeepProcessedAt(d, args, now) ==
  LET id == d.seq + 1
      stored == {r \in d.articles : r.url = args.url}
      at == IF stored = {} THEN now ELSE (CHOOSE r \in stored : TRUE).processed_at
      row == args @@ [id |-> id, processed_at |-> at, created_at |-> now]
  IN  [articles |-> {r \in d.articles : r.url # args.url} \cup {row}, seq |-> id]

\* INSERT OR REPLACE INTO articles (...) VALUES (..., CURRENT_TIMESTAMP) and the
\* commit: url is UNIQUE, so a row of the same url is deleted first; the new
\* row gets the next AUTOINCREMENT id; created_at takes its default
save_article(d, args, now) ==
  LET id == d.seq + 1
      row == args @@ [id |-> id, processed_at |-> now, created_at |-> now]
  IN  [articles |-> {r \in d.articles : r.url # args.url} \cup {row}, seq |-> id]

\* text LIKE pattern from positions j and i on: % matches any run, _ any one
\* character, and letters match whatever their case
RECURSIVE LikeFrom(_, _, _, _)
LikeFrom(pattern, i, text, j) ==
  IF i > Len(pattern) THEN j > Len(text)
  ELSE IF CharAt(pattern, i) = "%"
         THEN \E k \in j..(Len(text) + 1) : LikeFrom(pattern, i + 1, text, k)
         ELSE /\ j <= Len(text)
              /\ \/ CharAt(pattern, i) = "_"
                 \/ LowerChar(CharAt(pattern, i)) = LowerChar(CharAt(text, j))
              /\ LikeFrom(pattern, i + 1, text, j + 1)

Like(text, pattern) == LikeFrom(pattern, 1, text, 1)

\* s.split(','), from position i on, part being the piece that ends before i
RECURSIVE SplitFrom(_, _, _)
SplitFrom(s, i, part) ==
  IF i > Len(s) THEN <<part>>
  ELSE IF CharAt(s, i) = ","
         THEN <<part>> \o SplitFrom(s, i + 1, "")
         ELSE SplitFrom(s, i + 1, part \o CharAt(s, i))

\* A sources filter that takes a source containing a given name
SourceFilter_Substring(r, q) ==
  "sources" \in DOMAIN q /\ q.sources # <<>>
    => \E k \in DOMAIN q.sources : Like(r.source, "%" \o q.sources[k] \o "%")

\* AND source IN (?, ...), when sources is given and not empty
SourceFilter(r, q) ==
  "sources" \in DOMAIN q /\ q.sources # <<>>
    => \E k \in DOMAIN q.sources : r.source = q.sources[k]

\* AND (topics LIKE ? OR ...) with %topic% for each topic, when topics is given
\* and not empty; a NULL topics column matches nothing
TopicsFilter(r, q) ==
  "topics" \in DOMAIN q /\ q.topics # <<>>
    => /\ "topics" \in DOMAIN r
       /\ \E k \in DOMAIN q.topics : Like(r.topics, "%" \o q.topics[k] \o "%")

\* AND relevance_score >= ?, when min_relevance is not None
RelevanceFilter(r, q) ==
  "min_relevance" \in DOMAIN q => r.relevance_score >= q.min_relevance

\* AND processed_at >= ?, AND processed_at <= ?, for the dates given
DateFilter(r, q) ==
  /\ "start_date" \in DOMAIN q => r.processed_at >= q.start_date
  /\ "end_date" \in DOMAIN q => r.processed_at <= q.end_date

\* The characters of which the tokens of the full-text index are made
TokenChars == "abcdefghijklmnopqrstuvwxyz0123456789"

TokenCharSet == {CharAt(TokenChars, i) : i \in 1..Len(TokenChars)}

\* The tokens articles_fts holds of a lower-cased text s (fts5 with its default
\* tokenizer): the maximal runs of letters and digits from position i on
RECURSIVE FtsTokensFrom(_, _, _)
FtsTokensFrom(s, i, token) ==
  LET done == IF token = "" THEN {} ELSE {token}
  IN  IF i > Len(s) THEN done
      ELSE IF CharAt(s, i) \in TokenCharSet
             THEN FtsTokensFrom(s, i + 1, token \o CharAt(s, i))
             ELSE done \cup FtsTokensFrom(s, i + 1, "")

FtsTokens(text) == FtsTokensFrom(lower(text), 1, "")

\* The pieces of s between the occurrences of the string sep, from position i
\* on, piece being the piece that ends before i
RECURSIVE SplitBy(_, _, _, _)
SplitBy(s, sep, i, piece) ==
  IF i > Len(s) THEN <<piece>>
  ELSE IF i + Len(sep) - 1 <= Len(s) /\ SubSeq(s, i, i + Len(sep) - 1) = sep
         THEN <<piece>> \o SplitBy(s, sep, i + Len(sep), "")
         ELSE SplitBy(s, sep, i + 1, piece \o CharAt(s, i))

\* WHERE articles_fts MATCH ?, for a query of words and ORs: the row of the
\* index that is joined to r holds every word of one of the alternatives.  The
\* index rows of replaced articles are joined to no row of articles.
FtsMatch(r, query) ==
  LET alternatives == SplitBy(query, " OR ", 1, "")
  IN  \E k \in DOMAIN alternatives :
        /\ FtsTokens(alternatives[k]) # {}
        /\ FtsTokens(alternatives[k]) \subseteq FtsTokens(r.title)

\* if query: a text query is given and is not empty
HasTextQuery(q) == "query" \in DOMAIN q /\ q.query # ""

\* articles_fts.rank as search_rank: the rank (bm25) of a matching row is a
\* negative number, the better the match the lower; which one is left open
SearchRanks == {-2, -1}

\* A text-query ordering that looks at the rank last
OrderedBySearchRank_RankLast(rows) ==
  LET n == Cardinality(rows)
  IN  {o \in [1..n -> rows] :
         /\ \A i, j \in 1..n : i # j => o[i] # o[j]
         /\ \A i \in 1..(n - 1) :
              \/ o[i].relevance_score > o[i + 1].relevance_score
              \/ /\ o[i].relevance_score = o[i + 1].relevance_score
                 /\ o[i].processed_at > o[i + 1].processed_at
              \/ /\ o[i].relevance_score = o[i + 1].relevance_score
                 /\ o[i].processed_at = o[i + 1].processed_at
                 /\ o[i].search_rank <= o[i + 1].search_rank}

\* ORDER BY search_rank, relevance_score DESC, processed_at DESC: the orders the
\* rows, each with its search_rank, can come in
OrderedBySearchRank(rows) ==
  LET n == Cardinality(rows)
  IN  {o \in [1..n -> rows] :
         /\ \A i, j \in 1..n : i # j => o[i] # o[j]
         /\ \A i \in 1..(n - 1) :
              \/ o[i].search_rank < o[i + 1].search_rank
              \/ /\ o[i].search_rank = o[i + 1].search_rank
                 /\ o[i].relevance_score > o[i + 1].relevance_score
              \/ /\ o[i].search_rank = o[i + 1].search_rank
                 /\ o[i].relevance_score = o[i + 1].relevance_score
                 /\ o[i].processed_at >= o[i + 1].processed_at}

\* ORDER BY relevance_score DESC, processed_at DESC: the orders the rows can
\* come in; the order of rows equal in both columns is left to SQLite
Ordered(rows) ==
  LET n == Cardinality(rows)
  IN  {o \in [1..n -> rows] :
         /\ \A i, j \in 1..n : i # j => o[i] # o[j]
         /\ \A i \in 1..(n - 1) :
              \/ o[i].relevance_score > o[i + 1].relevance_score
              \/ /\ o[i].relevance_score = o[i + 1].relevance_score
                 /\ o[i].processed_at >= o[i + 1].processed_at}

\* A LIMIT that lets one row more through
LimitOffset_OneMore(o, limit, offset) ==
  LET first == Max(offset, 0) + 1
      last == IF limit < 0 THEN Len(o) ELSE Min(Len(o), first + limit)
  IN  SubSeq(o, first, last)

\* LIMIT ? OFFSET ?: a negative limit is no limit, a negative offset is 0
LimitOffset(o, limit, offset) ==
  LET first == Max(offset, 0) + 1
      last == IF limit < 0 THEN Len(o) ELSE Min(Len(o), first + limit - 1)
  IN  SubSeq(o, first, last)

\* The dict made of a fetched row
ArticleDict(row) ==
  [id |-> row.id, url |-> row.url, title |-> row.title, source |-> row.source,
   topics |-> IF "topics" \in DOMAIN row /\ row.topics # ""
                THEN SplitFrom(row.topics, 1, "")
                ELSE <<>>,
   relevance_score |-> row.relevance_score, processed_at |-> row.processed_at]

\* The rows that pass the filters of q
Filtered(d, q) ==
  {r \in d.articles :
     /\ HasTextQuery(q) => FtsMatch(r, q.query)
     /\ SourceFilter(r, q)
     /\ TopicsFilter(r, q)
     /\ RelevanceFilter(r, q)
     /\ DateFilter(r, q)}

\* The orders the rows that pass the filters can be fetched in, before LIMIT
\* and OFFSET; with a text query each row has its search_rank
Fetched(d, q) ==
  LET rows == Filtered(d, q)
  IN  IF HasTextQuery(q)
        THEN UNION {OrderedBySearchRank({r @@ [search_rank |-> rank[r]] : r \in rows}) :
                      rank \in [rows -> SearchRanks]}
        ELSE Ordered(rows)

\* The list of dicts made of the rows fetched when the rows that pass the
\* filters come in order o
Returned(o, q) ==
  [i \in DOMAIN LimitOffset(o, q.limit, q.offset) |->
     LET row == LimitOffset(o, q.limit, q.offset)[i]
     IN  IF HasTextQuery(q)
           THEN ArticleDict(row) @@ [search_rank |-> row.search_rank]
           ELSE ArticleDict(row)]

\* search_articles(**q): the lists it can return
search_articles(d, q) == {Returned(o, q) : o \in Fetched(d, q)}

\* re.findall(r'\w+', s) for a lower-cased s, as a list: the maximal runs of
\* word characters from position i on, word being the run that ends before i
RECURSIVE FindAllWordsList(_, _, _)
FindAllWordsList(s, i, word) ==
  LET done == IF word = "" THEN <<>> ELSE <<word>>
  IN  IF i > Len(s) THEN done
      ELSE IF CharAt(s, i) \in WordCharSet
             THEN FindAllWordsList(s, i + 1, word \o CharAt(s, i))
             ELSE done \o FindAllWordsList(s, i + 1, "")

\* [w for w in words if len(w) > 4]
RECURSIVE LongWords(_)
LongWords(words) ==
  IF words = <<>> THEN <<>>
  ELSE (IF Len(Head(words)) > 4 THEN <<Head(words)>> ELSE <<>>) \o LongWords(Tail(words))

\* " OR ".join(words)
RECURSIVE JoinOr(_)
JoinOr(words) ==
  IF words = <<>> THEN ""
  ELSE IF Len(words) = 1 THEN words[1]
  ELSE words[1] \o " OR " \o JoinOr(Tail(words))

\* significant_words = [w for w in words if len(w) > 4][:5]
significant_words(title) ==
  LET long == LongWords(FindAllWordsList(lower(title), 1, ""))
  IN  SubSeq(long, 1, Min(5, Len(long)))

\* The arguments of the search_articles call of find_similar_articles(title)
SimilarQuery(title) ==
  [query |-> JoinOr(significant_words(title)), limit |-> 10, offset |-> 0]

(***************************************************************************)
(* Saving articles and searching them.                                     *)
(***************************************************************************)
MaxWrites == 3

MaxTicks == 2

MaxPages == 4

\* The arguments of the save_article calls
SavedArticles ==
  {[url |-> "u1", title |-> "First title", source |-> "ArXiv",
    topics |-> "Robotics,Computer Vision", relevance_score |-> 5000],
   [url |-> "u1", title |-> "Second title", source |-> "ArXiv",
    topics |-> "Robotics", relevance_score |-> 3000],
   [url |-> "u2", title |-> "Other", source |-> "TechCrunch AI",
    relevance_score |-> 5000],
   [url |-> "u2", title |-> "Other title", source |-> "ArXiv",
    topics |-> "", relevance_score |-> 5000],
   [url |-> "u3", title |-> "Third", source |-> "TechCrunch AI",
    topics |-> "Natural Language Processing", relevance_score |-> 3000]}

\* The arguments of the save_article calls whose url is None
UrlMissing ==
  {[title |-> "No url", source |-> "ArXiv", relevance_score |-> 5000]}

\* The titles find_similar_articles is called with
SimilarTitles ==
  {"First title",
   "AI is now",
   "Other titles, third title",
   "Researchers unveil transformer architecture, beating earlier benchmarks decisively"}

\* limit and offset as search_articles defaults them
Page == [limit |-> 50, offset |-> 0]

\* The arguments of the search_articles calls
Queries ==
  {Page,
   Page @@ [sources |-> <<"ArXiv">>],
   Page @@ [sources |-> <<>>],
   Page @@ [sources |-> <<"Ar">>],
   Page @@ [sources |-> <<"ArXiv", "TechCrunch AI">>, topics |-> <<"Robotics">>],
   Page @@ [topics |-> <<"robotics">>],
   Page @@ [topics |-> <<"R_botics">>],
   Page @@ [topics |-> <<"Vision", "Language">>],
   Page @@ [topics |-> <<>>],
   Page @@ [min_relevance |-> 5000],
   Page @@ [min_relevance |-> 0],
   Page @@ [start_date |-> 1],
   Page @@ [end_date |-> 1],
   Page @@ [sources |-> <<"ArXiv">>, start_date |-> 1, end_date |-> 1],
   [limit |-> 1, offset |-> 0],
   [limit |-> 1, offset |-> 1],
   [limit |-> 1, offset |-> 2],
   Page @@ [query |-> "title"],
   Page @@ [query |-> ""],
   Page @@ [query |-> "first OR other"],
   Page @@ [query |-> "title", min_relevance |-> 5000],
   [limit |-> 1, offset |-> 1, query |-> "title"],
   [limit |-> 2, offset |-> 0],
   [limit |-> 2, offset |-> 0, query |-> "title OR third"],
   [limit |-> -1, offset |-> 0],
   [limit |-> 1, offset |-> -1],
   Page @@ [start_date |-> 2, end_date |-> 1]}

InitStore ==
  /\ article = [title |-> "", content |-> ""]
  /\ hashSeed = 1
  /\ results = <<>>
  /\ FilterIdle
  /\ clock = 0
  /\ StoreIdle
  /\ CycleIdle
  /\ SplitIdle

\* await db_manager.save_article(**args), when CURRENT_TIMESTAMP is clock
SaveArticle ==
  /\ searches = <<>>
  /\ failures = <<>>
  /\ similar = <<>>
  /\ Len(writes) < MaxWrites
  /\ \E args \in SavedArticles :
       /\ db' = save_article(db, args, clock)
       /\ writes' = Append(writes, [args |-> args, at |-> clock])
  /\ UNCHANGED <<splitVars, cycleVars, analyzerVars, filterVars, clock, searches, failures, similar>>

\* Time passes
Tick ==
  /\ searches = <<>>
  /\ failures = <<>>
  /\ similar = <<>>
  /\ clock < MaxTicks
  /\ clock' = clock + 1
  /\ UNCHANGED <<splitVars, cycleVars, analyzerVars, filterVars, storeVars>>

\* await db_manager.search_articles(**q): ret is one of search_articles(db, q).
\* fetched is the order in which SQLite
\* yields the rows that pass the filters of q: the order of the ties is its
\* choice, and it is the same whenever the same statement runs on the same rows
SearchArticles ==
  /\ searches = <<>>
  /\ failures = <<>>
  /\ similar = <<>>
  /\ \E q \in Queries : \E o \in Fetched(db, q) :
       searches' = <<[q |-> q, ret |-> Returned(o, q), fetched |-> o]>>
  /\ UNCHANGED <<splitVars, cycleVars, analyzerVars, filterVars, clock, db, writes, failures, similar>>

\* The caller asks for the page after the last one, offset + limit, with the
\* same filters, nothing having been saved in between
NextPage ==
  /\ searches # <<>>
  /\ Len(searches) < MaxPages
  /\ LET last == searches[Len(searches)]
         q == [last.q EXCEPT !.offset = @ + last.q.limit]
     IN  /\ last.q.limit > 0
         /\ last.q.offset >= 0
         /\ last.ret # <<>>
         /\ searches' = Append(searches, [q |-> q, ret |-> Returned(last.fetched, q),
                                          fetched |-> last.fetched])
  /\ UNCHANGED <<splitVars, cycleVars, analyzerVars, filterVars, clock, db, writes, failures, similar>>

\* await db_manager.save_article(**args) raises: the exception of execute or of
\* commit is logged and raised again, with no second attempt.  execute raises
\* for a url that is None (url is NOT NULL) and when the storage layer fails;
\* the statement has changed nothing then.  When commit raises, the row that
\* execute inserted is rolled back by SQLite (disk full, I/O error) or stays in
\* the open transaction of the connection (database is locked), where every
\* later statement of the connection sees it: save_article does not roll back.
SaveArticleRaises ==
  /\ searches = <<>>
  /\ failures = <<>>
  /\ similar = <<>>
  /\ \/ /\ \E args \in SavedArticles \cup UrlMissing :
             failures' = <<[args |-> args, at |-> clock, raised_by |-> "execute",
                            attempts |-> 1, before |-> db, after |-> db]>>
        /\ UNCHANGED <<db, writes>>
     \/ /\ \E args \in SavedArticles :
             failures' = <<[args |-> args, at |-> clock, raised_by |-> "commit",
                            attempts |-> 1, before |-> db, after |-> db]>>
        /\ UNCHANGED <<db, writes>>
     \/ \E args \in SavedArticles :
          /\ db' = save_article(db, args, clock)
          /\ writes' = Append(writes, [args |-> args, at |-> clock])
          /\ failures' = <<[args |-> args, at |-> clock, raised_by |-> "commit",
                            attempts |-> 1, before |-> db, after |-> db']>>
  /\ UNCHANGED <<splitVars, cycleVars, analyzerVars, filterVars, clock, searches, similar>>

\* await db_manager.find_similar_articles(title): with no significant word it
\* returns [] and search_articles is not called; else it returns what
\* search_articles(query=query, limit=10) returns
FindSimilarArticles ==
  /\ searches = <<>>
  /\ failures = <<>>
  /\ similar = <<>>
  /\ \E title \in SimilarTitles :
       IF significant_words(title) = <<>>
         THEN /\ similar' = <<[title |-> title, significant_words |-> <<>>,
                               ret |-> <<>>]>>
              /\ UNCHANGED searches
         ELSE \E o \in Fetched(db, SimilarQuery(title)) :
                /\ searches' = <<[q |-> SimilarQuery(title),
                                  ret |-> Returned(o, SimilarQuery(title)),
                                  fetched |-> o]>>
                /\ similar' = <<[title |-> title,
                                 significant_words |-> significant_words(title),
                                 query |-> SimilarQuery(title).query,
                                 ret |-> Returned(o, SimilarQuery(title))]>>
  /\ UNCHANGED <<splitVars, cycleVars, analyzerVars, filterVars, clock, db, writes, failures>>

NextStore ==
  \/ SaveArticle
  \/ Tick
  \/ SearchArticles
  \/ NextPage
  \/ SaveArticleRaises
  \/ FindSimilarArticles

SpecStore == InitStore /\ [][NextStore]_vars

(***************************************************************************)
(* main.py: the processing cycles of AINewsAggregator.  All coroutines run  *)
(* on one event loop: a cycle runs from one await to the next without      *)
(* another cycle running in between, and at an await another cycle can     *)
(* run.  The awaits of a cycle are fetch_articles, article_exists for each *)
(* fetched article, and summarize, send_message and save_article for each  *)
(* article processed.  Of an Article the fields that the cycle hands on    *)
(* are kept.                                                               *)
(***************************************************************************)
MaxCycles == 2

MaxFaults == 1

\* ','.join(items)
RECURSIVE JoinComma(_)
JoinComma(items) ==
  IF items = <<>> THEN ""
  ELSE IF Len(items) = 1 THEN items[1]
  ELSE items[1] \o "," \o JoinComma(Tail(items))

Article(title, url, source, topics, relevance_score) ==
  [title |-> title, url |-> url, source |-> source, topics |-> topics,
   relevance_score |-> relevance_score]

\* What the news sources return
Feeds ==
  {<<Article("New GPT model released", "u1", "TechCrunch AI", <<>>, 5000),
     Article("New GPT model released today", "u2", "VentureBeat", <<>>, 5000),
     Article("Robotics breakthrough in 2024", "u3", "ArXiv", <<"Robotics">>, 5000)>>,
   <<Article("Chip prices fall", "u4", "TechCrunch AI", <<>>, 3000),
     Article("Robotics breakthrough in 2024", "u3", "ArXiv", <<"Robotics">>, 5000)>>}

\* The values of MAX_ARTICLES_PER_RUN
ArticleLimits == {1, 2}

InitCycle ==
  /\ article = [title |-> "", content |-> ""]
  /\ hashSeed = 1
  /\ results = <<>>
  /\ FilterIdle
  /\ clock = 0
  /\ StoreIdle
  /\ feed \in Feeds
  /\ config \in [max_articles_per_run : ArticleLimits]
  /\ cycles = <<>>
  /\ sent = <<>>
  /\ SplitIdle

\* fetch_and_process_news from the conversion of new_articles to dicts to the
\* cut to max_articles_per_run: no await lies in between
Prepare(new_articles, now) ==
  LET article_dicts ==
        [n \in DOMAIN new_articles |->
           [title |-> new_articles[n].title, url |-> new_articles[n].url,
            relevance_score |-> new_articles[n].relevance_score,
            article_obj |-> new_articles[n]]]
      unique_articles == remove_duplicates(article_dicts, 80)
      ranked_articles ==
        rank_by_quality(unique_articles, [n \in DOMAIN unique_articles |-> now]).ret
      objs == [n \in DOMAIN ranked_articles |-> ranked_articles[n].article_obj]
  IN  [unique_articles |-> unique_articles,
       ranked_articles |-> ranked_articles,
       new_articles |->
         IF Len(objs) > config.max_articles_per_run
           THEN SubSeq(objs, 1, config.max_articles_per_run)
           ELSE objs]

\* article_exists(url)
article_exists(d, url) == \E r \in d.articles : r.url = url

\* The arguments of the save_article call of _process_single_article
SaveArgs(a) ==
  IF a.topics # <<>>
    THEN [url |-> a.url, title |-> a.title, source |-> a.source,
          topics |-> JoinComma(a.topics), relevance_score |-> a.relevance_score]
    ELSE [url |-> a.url, title |-> a.title, source |-> a.source,
          relevance_score |-> a.relevance_score]

\* A cycle that begins: it awaits the articles of the sources.  stored_at_start
\* and overlapped are ghost fields: the urls stored when the cycle began, and
\* whether another cycle ran while this one did.
NewCycle(kind, overlapped) ==
  [kind |-> kind, pc |-> "fetch", all_articles |-> <<>>, k |-> 1, found |-> <<>>,
   unique_articles |-> <<>>, ranked_articles |-> <<>>, new_articles |-> <<>>,
   i |-> 1, outcomes |-> <<>>,
   stored_at_start |-> {r.url : r \in db.articles}, overlapped |-> overlapped]

Running == {c \in DOMAIN cycles : cycles[c].pc # "done"}

\* The calls of a cycle that raised or, for send_message, returned False
Faults ==
  SumOver([c \in DOMAIN cycles |->
             Cardinality({n \in DOMAIN cycles[c].outcomes :
                            cycles[c].outcomes[n] # "saved"})],
          DOMAIN cycles)

\* The cycle has the filtered list: it goes through remove_duplicates,
\* rank_by_quality and the cut, and on to the first article
Prepared(cycle, found) ==
  LET prepared == Prepare(found, clock)
  IN  [cycle EXCEPT
         !.found = found,
         !.unique_articles = prepared.unique_articles,
         !.ranked_articles = prepared.ranked_articles,
         !.new_articles = prepared.new_articles,
         !.i = 1,
         !.pc = IF prepared.new_articles = <<>> THEN "done" ELSE "summarize"]

\* _process_single_article has ended for new_articles[i], with the outcome given
Processed(cycle, outcome) ==
  [cycle EXCEPT
     !.outcomes = Append(@, outcome),
     !.i = @ + 1,
     !.pc = IF cycle.i = Len(cycle.new_articles) THEN "done" ELSE "summarize"]

\* start(): after scheduler.start(), fetch_and_process_news is awaited directly
StartInitialRun ==
  /\ cycles = <<>>
  /\ cycles' = <<NewCycle("initial", FALSE)>>
  /\ UNCHANGED <<splitVars, feed, config, sent, analyzerVars, filterVars, clock, storeVars>>

\* The scheduler runs job fetch_news when its interval has gone by, unless an
\* instance that the scheduler began is still running (max_instances=1); the
\* run that start() awaits is none of the scheduler's instances
StartScheduledRun ==
  /\ cycles # <<>>
  /\ Len(cycles) < MaxCycles
  /\ \A c \in Running : cycles[c].kind # "scheduled"
  /\ cycles' = Append([c \in DOMAIN cycles |->
                         IF c \in Running THEN [cycles[c] EXCEPT !.overlapped = TRUE]
                                          ELSE cycles[c]],
                      NewCycle("scheduled", Running # {}))
  /\ UNCHANGED <<splitVars, feed, config, sent, analyzerVars, filterVars, clock, storeVars>>

\* The sources have returned their articles
FetchArticles ==
  /\ \E c \in DOMAIN cycles :
       /\ cycles[c].pc = "fetch"
       /\ cycles' = [cycles EXCEPT ![c] =
                       IF feed = <<>> THEN Prepared(@, <<>>)
                       ELSE [@ EXCEPT !.all_articles = feed, !.k = 1, !.pc = "exists"]]
  /\ UNCHANGED <<splitVars, feed, config, sent, analyzerVars, filterVars, clock, storeVars>>

\* article_exists(article.url) has returned for all_articles[k]; after the last
\* one the cycle goes on to the first summarize without an await
ArticleExists ==
  /\ \E c \in DOMAIN cycles :
       LET cycle == cycles[c]
           a == cycle.all_articles[cycle.k]
           found == IF article_exists(db, a.url) THEN cycle.found
                    ELSE Append(cycle.found, a)
       IN  /\ cycle.pc = "exists"
           /\ cycles' = [cycles EXCEPT ![c] =
                           IF cycle.k = Len(cycle.all_articles)
                             THEN Prepared(@, found)
                             ELSE [@ EXCEPT !.found = found, !.k = @ + 1]]
  /\ UNCHANGED <<splitVars, feed, config, sent, analyzerVars, filterVars, clock, storeVars>>

\* summarizer.summarize(...) has returned for new_articles[i], or has raised:
\* _process_single_article raises again and the loop goes to the next article
Summarize ==
  /\ \E c \in DOMAIN cycles :
       /\ cycles[c].pc = "summarize"
       /\ \/ cycles' = [cycles EXCEPT ![c].pc = "send"]
          \/ /\ Faults < MaxFaults
             /\ cycles' = [cycles EXCEPT ![c] = Processed(@, "summarize raised")]
  /\ UNCHANGED <<splitVars, feed, config, sent, analyzerVars, filterVars, clock, storeVars>>

\* A cycle that awaits save_article whatever send_message returned
SendMessage_SaveAnyway ==
  /\ \E c \in DOMAIN cycles :
       /\ cycles[c].pc = "send"
       /\ \/ /\ cycles' = [cycles EXCEPT ![c].pc = "save"]
             /\ sent' = Append(sent, [cycle |-> c, n |-> cycles[c].i,
                                      url |-> cycles[c].new_articles[cycles[c].i].url])
          \/ /\ cycles' = [cycles EXCEPT ![c].pc = "save"]
             /\ UNCHANGED sent
  /\ UNCHANGED <<splitVars, feed, config, analyzerVars, filterVars, clock, storeVars>>

\* telegram_bot.send_message(...) has returned for new_articles[i]: True, and
\* save_article is awaited, or False, and nothing more is done for the article
SendMessage ==
  /\ \E c \in DOMAIN cycles :
       /\ cycles[c].pc = "send"
       /\ \/ /\ cycles' = [cycles EXCEPT ![c].pc = "save"]
             /\ sent' = Append(sent, [cycle |-> c, n |-> cycles[c].i,
                                      url |-> cycles[c].new_articles[cycles[c].i].url])
          \/ /\ Faults < MaxFaults
             /\ cycles' = [cycles EXCEPT ![c] = Processed(@, "send failed")]
             /\ UNCHANGED sent
  /\ UNCHANGED <<splitVars, feed, config, analyzerVars, filterVars, clock, storeVars>>

\* save_article(...) has returned for new_articles[i], or has raised with
\* nothing written
SaveProcessed ==
  /\ \E c \in DOMAIN cycles :
       /\ cycles[c].pc = "save"
       /\ \/ /\ cycles' = [cycles EXCEPT ![c] = Processed(@, "saved")]
             /\ db' = save_article(db, SaveArgs(cycles[c].new_articles[cycles[c].i]), clock)
             /\ writes' = Append(writes,
                                 [args |-> SaveArgs(cycles[c].new_articles[cycles[c].i]),
                                  at |-> clock, cycle |-> c, n |-> cycles[c].i])
          \/ /\ Faults < MaxFaults
             /\ cycles' = [cycles EXCEPT ![c] = Processed(@, "save raised")]
             /\ UNCHANGED <<db, writes>>
  /\ UNCHANGED <<splitVars, feed, config, sent, analyzerVars, filterVars, clock, searches,
                 failures, similar>>

NextCycle ==
  \/ StartInitialRun
  \/ StartScheduledRun
  \/ FetchArticles
  \/ ArticleExists
  \/ Summarize
  \/ SendMessage
  \/ SaveProcessed

SpecCycle == InitCycle /\ [][NextCycle]_vars

(***************************************************************************)
(* telegram/bot.py: splitting a message into the parts that are sent.      *)
(***************************************************************************)
MaxMessageLen == 6

\* str.strip(): s without the whitespace at its ends
RECURSIVE strip(_)
strip(s) ==
  IF s = "" THEN ""
  ELSE IF IsSpace(CharAt(s, 1)) THEN strip(SubSeq(s, 2, Len(s)))
  ELSE IF IsSpace(CharAt(s, Len(s))) THEN strip(SubSeq(s, 1, Len(s) - 1))
  ELSE s

\* while len(sentence) > max_length: parts.append(sentence[:max_length].strip());
\* sentence = sentence[max_length:] and then current_part = sentence
RECURSIVE ForceSplit(_, _, _)
ForceSplit(sentence, parts, max) ==
  IF Len(sentence) > max
    THEN ForceSplit(SubSeq(sentence, max + 1, Len(sentence)),
                    Append(parts, strip(SubSeq(sentence, 1, max))), max)
    ELSE [parts |-> parts, current_part |-> sentence]

\* The loop over the sentences of a paragraph, from sentences[j] on; st holds
\* parts and current_part
RECURSIVE SentenceLoop(_, _, _, _)
SentenceLoop(sentences, j, st, max) ==
  IF j > Len(sentences) THEN st
  ELSE LET sentence == sentences[j]
           next ==
             IF Len(st.current_part) + Len(sentence) + 2 > max
               THEN IF st.current_part # ""
                      THEN [parts |-> Append(st.parts, strip(st.current_part)),
                            current_part |-> sentence]
                      ELSE ForceSplit(sentence, st.parts, max)
               ELSE [parts |-> st.parts,
                     current_part |-> st.current_part
                                        \o (IF st.current_part # "" THEN ". " ELSE "")
                                        \o sentence]
       IN  SentenceLoop(sentences, j + 1, next, max)

\* The loop over the paragraphs, from paragraphs[p] on
RECURSIVE ParagraphLoop(_, _, _, _)
ParagraphLoop(paragraphs, p, st, max) ==
  IF p > Len(paragraphs) THEN st
  ELSE LET paragraph == paragraphs[p]
           flushed ==
             IF st.current_part # ""
               THEN [parts |-> Append(st.parts, strip(st.current_part)),
                     current_part |-> ""]
               ELSE st
           next ==
             IF Len(st.current_part) + Len(paragraph) + 2 > max
               THEN SentenceLoop(SplitBy(paragraph, ". ", 1, ""), 1, flushed, max)
               ELSE [parts |-> st.parts,
                     current_part |-> st.current_part
                                        \o (IF st.current_part # "" THEN "\n\n" ELSE "")
                                        \o paragraph]
       IN  ParagraphLoop(paragraphs, p + 1, next, max)

_split_message_intelligently(text, max) ==
  IF Len(text) <= max THEN <<text>>
  ELSE LET st == ParagraphLoop(SplitBy(text, "\n\n", 1, ""), 1,
                               [parts |-> <<>>, current_part |-> ""], max)
       IN  IF st.current_part # "" THEN Append(st.parts, strip(st.current_part))
           ELSE st.parts

\* The characters of the messages
MessageChars == {"a", ".", " ", "\n"}

RECURSIVE Strings(_, _)
Strings(chars, n) ==
  IF n = 0 THEN {""}
  ELSE LET shorter == Strings(chars, n - 1)
       IN  shorter \cup {t \o c : t \in {x \in shorter : Len(x) = n - 1}, c \in chars}

Messages == Strings(MessageChars, MaxMessageLen)

\* max_length is 4096 in send_message; the messages being short, it is too
MaxLengths == {2, 3}

InitSplit ==
  /\ article = [title |-> "", content |-> ""]
  /\ hashSeed = 1
  /\ results = <<>>
  /\ FilterIdle
  /\ clock = 0
  /\ StoreIdle
  /\ CycleIdle
  /\ message \in Messages
  /\ max_length \in MaxLengths
  /\ splits = <<>>

\* send_message: parts = self._split_message_intelligently(message, max_length),
\* each part then being handed to _send_single_message
SplitMessage ==
  /\ splits = <<>>
  /\ splits' = <<[ret |-> _split_message_intelligently(message, max_length)]>>
  /\ UNCHANGED <<message, max_length, cycleVars, analyzerVars, filterVars, clock,
                 storeVars>>

NextSplit == SplitMessage

SpecSplit == InitSplit /\ [][NextSplit]_vars

(***************************************************************************)
(* The claims about the classifier.  A call is an entry of results: ret is *)
(* the returned dict, locals the locals of the call.  Scores of locals are *)
(* multiples of 1 / locals.den; ret.relevance_score is in hundredths.      *)
(***************************************************************************)
Calls == Range(results)

\* How many keywords of kws occur in the lower-cased title+body / title of call c
InText(c, kws) == Cardinality(kws \cap c.locals.in_text)

InTitle(c, kws) == Cardinality(kws \cap c.locals.in_title)

Penalized(c) == c.ret.is_investment_news /\ ~c.ret.is_research_breakthrough

\* C1: the relevance_score analyze_article returns is at least 0 and at most 100,
\* also after the investment penalty and the breakthrough boost
C1_ScoreInRange ==
  \A c \in Calls : c.ret.relevance_score >= 0 /\ c.ret.relevance_score <= 10000

\* A breakthrough whose base score plus 15 exceeds 100 and is returned as 100
C1_Witness ==
  \E c \in Calls :
    /\ c.locals.applied = <<"boost">>
    /\ c.locals.base_score + 15 * c.locals.den > 100 * c.locals.den
    /\ c.ret.relevance_score = 10000

\* C2: for investment news that is no research breakthrough, the score after the
\* adjustments is max(0, base_score - 50), base_score being what
\* _calculate_relevance_score returned; analyze_article returns it rounded to
\* two decimals
C2_PenaltyIsBaseMinus50 ==
  \A c \in Calls :
    Penalized(c) =>
      /\ c.locals.relevance_score = Max(0, c.locals.base_score - 50 * c.locals.den)
      /\ c.ret.relevance_score = Round2(c.locals.relevance_score, c.locals.den)

\* Penalised investment news whose base score is above 50: the score after the
\* penalty is the base score minus 50 and stays positive
C2_Witness ==
  \E c \in Calls :
    /\ Penalized(c)
    /\ c.locals.base_score > 50 * c.locals.den
    /\ c.locals.relevance_score = c.locals.base_score - 50 * c.locals.den
    /\ c.ret.relevance_score > 0

\* C3: classifying the same (title, body) twice yields identical output in every
\* field, the keyword list entry for entry
C3_SameOutputTwice ==
  \A i \in DOMAIN results : \A j \in DOMAIN results : results[i].ret = results[j].ret

\* C4: in every result, is_ai_related holds iff (the returned relevance_score >= 30
\* or the returned topics are non-empty) and the article is not investment news
\* that is no research breakthrough
C4_GateMatchesReturnedScore ==
  \A c \in Calls :
    c.ret.is_ai_related <=>
      /\ (c.ret.relevance_score >= 3000 \/ Len(c.ret.topics) > 0)
      /\ ~(c.ret.is_investment_news /\ ~c.ret.is_research_breakthrough)

\* C5: a category is among the returned topics iff at least 2 distinct keywords
\* of the category occur in the lower-cased title+body
C5_TopicIffTwoKeywords ==
  \A c \in Calls : \A i \in DOMAIN AI_TOPIC_KEYWORDS :
    (AI_TOPIC_KEYWORDS[i].topic \in Range(c.ret.topics))
      <=> InText(c, Range(AI_TOPIC_KEYWORDS[i].keywords)) >= 2

\* One category with exactly 1 keyword present is left out and another with
\* exactly 2 is among the topics
C5_Witness ==
  \E c \in Calls : \E i, j \in DOMAIN AI_TOPIC_KEYWORDS :
    /\ InText(c, Range(AI_TOPIC_KEYWORDS[i].keywords)) = 1
    /\ AI_TOPIC_KEYWORDS[i].topic \notin Range(c.ret.topics)
    /\ InText(c, Range(AI_TOPIC_KEYWORDS[j].keywords)) = 2
    /\ AI_TOPIC_KEYWORDS[j].topic \in Range(c.ret.topics)

BreakthroughGate(c, markers) ==
  \/ InText(c, BREAKTHROUGH_KEYWORDS) >= 2
  \/ InText(c, BREAKTHROUGH_KEYWORDS) >= 1 /\ InText(c, RESEARCH_KEYWORDS) >= 3
  \/ InText(c, markers) >= 1 /\ InText(c, RESEARCH_KEYWORDS) >= 2

\* C7 as claimed: the gate's provenance markers are those of the Score 6 bonus,
\* "arxiv" and "published"
C7_GateWithBonusMarkers ==
  \A c \in Calls :
    c.ret.is_research_breakthrough <=> BreakthroughGate(c, {"arxiv", "published"})

\* C7: is_research_breakthrough iff >= 2 breakthrough keywords are present, or
\* >= 1 and >= 3 research keywords, or "arxiv" and >= 2 research keywords: "arxiv"
\* is the only marker of the gate, "published" counts for the Score 6 bonus alone
C7_GateWithArxivMarker ==
  \A c \in Calls :
    c.ret.is_research_breakthrough <=> BreakthroughGate(c, {"arxiv"})

\* A breakthrough by the third condition alone
C7_Witness ==
  \E c \in Calls :
    /\ c.ret.is_research_breakthrough
    /\ InText(c, BREAKTHROUGH_KEYWORDS) = 0
    /\ InText(c, {"arxiv"}) = 1
    /\ InText(c, RESEARCH_KEYWORDS) = 2

\* C8: the penalty and the boost are applied at most once each, the penalty
\* first; investment news that is a breakthrough gets no penalty; and for every
\* breakthrough the score after the adjustments is min(100, base_score + 15),
\* returned rounded to two decimals
C8_PenaltyThenBoost ==
  \A c \in Calls :
    /\ c.locals.applied \in {<<>>, <<"penalty">>, <<"boost">>, <<"penalty", "boost">>}
    /\ c.ret.is_investment_news /\ c.ret.is_research_breakthrough
         => c.locals.applied = <<"boost">>
    /\ c.ret.is_research_breakthrough =>
         /\ c.locals.relevance_score
              = Min(100 * c.locals.den, c.locals.base_score + 15 * c.locals.den)
         /\ c.ret.relevance_score = Round2(c.locals.relevance_score, c.locals.den)

\* Investment news that is a breakthrough, boosted by 15 below the ceiling
C8_Witness ==
  \E c \in Calls :
    /\ c.ret.is_investment_news /\ c.ret.is_research_breakthrough
    /\ c.locals.base_score >= 50 * c.locals.den
    /\ c.locals.base_score + 15 * c.locals.den < 100 * c.locals.den
    /\ c.locals.relevance_score = c.locals.base_score + 15 * c.locals.den

\* The terms of the base score as C9 states them, each times den
T1(c) ==
  LET found == ai_keywords \cap c.locals.in_title
  IN  Min(30 * c.locals.den,
          SumOver([kw \in found |-> Min((Len(kw) * c.locals.den) \div 2, 5 * c.locals.den)],
                  found))

T2(c) ==
  IF c.locals.word_count = 0 THEN 0
  ELSE Min(30 * c.locals.den,
           (3 * 100 * InText(c, ai_keywords) * c.locals.den) \div c.locals.word_count)

T3(c) ==
  Min(20 * c.locals.den,
      SumOver([i \in DOMAIN AI_TOPIC_KEYWORDS |->
                 (InText(c, Range(AI_TOPIC_KEYWORDS[i].keywords))
                    * AI_TOPIC_KEYWORDS[i].weight10 * c.locals.den) \div 10],
              DOMAIN AI_TOPIC_KEYWORDS))

T4(c) == Min(15, 3 * InText(c, HIGH_VALUE_KEYWORDS)) * c.locals.den

T5(c) == IF InTitle(c, TITLE_TERMS) > 0 THEN 5 * c.locals.den ELSE 0

T6(c) ==
  Min(10, 2 * InText(c, RESEARCH_KEYWORDS)) * c.locals.den
    + (IF InText(c, RESEARCH_KEYWORDS) > 0 /\ InText(c, {"arxiv", "published"}) > 0
         THEN 5 * c.locals.den
         ELSE 0)

T7(c) == Min(15, 3 * InText(c, BREAKTHROUGH_KEYWORDS)) * c.locals.den

\* C9: the base score is min(100, T1 + ... + T7), each term capped before the sum
C9_BaseScoreIsSumOfCappedTerms ==
  \A c \in Calls :
    c.locals.base_score
      = Min(100 * c.locals.den, T1(c) + T2(c) + T3(c) + T4(c) + T5(c) + T6(c) + T7(c))

\* A text whose density term is capped at 30 while the base score stays below 100
C9_Witness ==
  \E c \in Calls :
    /\ c.locals.word_count > 0
    /\ 3 * 100 * InText(c, ai_keywords) > 30 * c.locals.word_count
    /\ T1(c) > 0 /\ T7(c) > 0
    /\ c.locals.base_score < 100 * c.locals.den

\* C10: the returned keyword list has at most 20 entries, none twice (compared
\* in lower case), each a lexicon, high-value, research or breakthrough keyword
\* that occurs in title+body, and every entry that occurs in the title precedes
\* every entry that does not
C10_KeywordList ==
  \A c \in Calls :
    LET kws == c.ret.keywords
    IN  /\ Len(kws) <= 20
        /\ \A i, j \in DOMAIN kws : i # j => lower(kws[i]) # lower(kws[j])
        /\ \A i \in DOMAIN kws :
             kws[i] \in (ai_keywords \cup HIGH_VALUE_KEYWORDS \cup RESEARCH_KEYWORDS
                           \cup BREAKTHROUGH_KEYWORDS) \cap c.locals.in_text
        /\ \A i, j \in DOMAIN kws :
             kws[i] \notin c.locals.in_title /\ kws[j] \in c.locals.in_title => j < i

\* More than 20 keywords occur, 20 are returned, the first of them from the title
\* and the last not
C10_Witness ==
  \E c \in Calls :
    /\ InText(c, ai_keywords \cup HIGH_VALUE_KEYWORDS \cup RESEARCH_KEYWORDS
                   \cup BREAKTHROUGH_KEYWORDS) > 20
    /\ Len(c.ret.keywords) = 20
    /\ c.ret.keywords[1] \in c.locals.in_title
    /\ c.ret.keywords[20] \notin c.locals.in_title

\* C11: every call of analyze_article on strings ends with a result of the six
\* fields (a text of word count 0 is scored without dividing by it), and for
\* the empty title with the empty body it returns relevance_score 0, no topics,
\* no keywords and is_ai_related false
C11_EmptyInputScoresZero ==
  /\ \A c \in Calls :
       /\ DOMAIN c.ret = {"relevance_score", "topics", "keywords", "is_ai_related",
                          "is_research_breakthrough", "is_investment_news"}
       /\ c.locals.word_count = 0 => c.locals.base_score = 0
  /\ \A c \in Calls :
       article.title = "" /\ article.content = "" =>
         /\ c.locals.word_count = 0
         /\ c.ret.relevance_score = 0
         /\ c.ret.topics = <<>>
         /\ c.ret.keywords = <<>>
         /\ c.ret.is_ai_related = FALSE

\* The empty title with the empty body has been classified
C11_Witness ==
  /\ article.title = "" /\ article.content = ""
  /\ \E c \in Calls : c.locals.word_count = 0 /\ c.ret.relevance_score = 0

(***************************************************************************)
(* The claims about ArticleFilter and the title similarity.                *)
(***************************************************************************)
\* The entries of seq at the indices K, in the order of seq
Restrict(seq, K) ==
  [p \in 1..Cardinality(K) |->
     seq[CHOOSE i \in K : Cardinality({j \in K : j < i}) = p - 1]]

\* |A n B| / |A u B| of the significant words of two titles is at least thr / 100
JaccardAtLeast(title1, title2, thr) ==
  LET A == SignificantWords(title1)
      B == SignificantWords(title2)
  IN  /\ A # {} /\ B # {}
      /\ Cardinality(A \cap B) * 100 >= thr * Cardinality(A \cup B)

\* C12: remove_duplicates returns a sub-sequence of its input: the articles at
\* some indices of the input, in input order; the empty input gives the empty
\* output
C12_UniqueIsSubsequence ==
  \A c \in Range(unique) :
    /\ \E K \in SUBSET DOMAIN batch : c.ret = Restrict(batch, K)
    /\ batch = <<>> => c.ret = <<>>

\* Of three different articles the second was dropped and the first and the
\* third were returned in this order
C12_Witness ==
  \E c \in Range(unique) :
    /\ Len(batch) = 3
    /\ batch[1] # batch[3]
    /\ c.ret = <<batch[1], batch[3]>>

\* C13: remove_duplicates keeps the first article, and drops a later article iff
\* its title similarity to an article kept before it is >= threshold, whatever
\* the relevance_score of either; for the titles "New GPT model released", "New
\* GPT model released today", "Robotics breakthrough in 2024" and threshold 0.7
\* it returns the first and the third
C13_GreedyFirstSeenWins ==
  \A c \in Range(unique) :
    /\ \E K \in SUBSET DOMAIN batch :
         /\ c.ret = Restrict(batch, K)
         /\ batch # <<>> => 1 \in K
         /\ \A i \in DOMAIN batch \ {1} :
              i \notin K <=>
                \E j \in K : j < i /\ JaccardAtLeast(batch[i].title, batch[j].title,
                                                     threshold)
    /\ /\ Len(batch) = 3
       /\ batch[1].title = "New GPT model released"
       /\ batch[2].title = "New GPT model released today"
       /\ batch[3].title = "Robotics breakthrough in 2024"
       /\ threshold = 70
       => c.ret = <<batch[1], batch[3]>>

\* The third article is as similar as the threshold to the second, which was
\* dropped as a duplicate of the first in spite of its higher relevance_score,
\* and is kept
C13_Witness ==
  \E c \in Range(unique) :
    /\ Len(batch) = 3
    /\ JaccardAtLeast(batch[2].title, batch[1].title, threshold)
    /\ batch[2].relevance_score > batch[1].relevance_score
    /\ JaccardAtLeast(batch[3].title, batch[2].title, threshold)
    /\ ~JaccardAtLeast(batch[3].title, batch[1].title, threshold)
    /\ c.ret = <<batch[1], batch[3]>>

\* C14: calculate_similarity(t1, t2) is |A n B| / |A u B| for the sets A, B of
\* lower-cased words of t1, t2 outside the stop words, and 0 when A or B is
\* empty, so that such titles are no duplicates; it is symmetric and within
\* [0, 1]; is_duplicate compares it with the threshold
C14_SimilarityIsJaccard ==
  \A c \in Range(sims) :
    LET A == c.words1
        B == c.words2
        swapped == calculate_similarity(c.text2, c.text1)
    IN  /\ A \cap stop_words = {} /\ B \cap stop_words = {}
        /\ c.similarity.den > 0
        /\ A = {} \/ B = {} => c.similarity.num = 0 /\ ~c.ret
        /\ A # {} /\ B # {} =>
             c.similarity.num * Cardinality(A \cup B)
               = Cardinality(A \cap B) * c.similarity.den
        /\ 0 <= c.similarity.num /\ c.similarity.num <= c.similarity.den
        /\ c.similarity.num * swapped.den = swapped.num * c.similarity.den
        /\ c.ret <=> c.similarity.num * 100 >= threshold * c.similarity.den

\* A title of stop words alone compared with itself: similarity 0, no duplicate
C14_Witness ==
  \E c \in Range(sims) :
    /\ c.text1 = c.text2
    /\ FindAllWords(lower(c.text1), 1, "") # {}
    /\ c.words1 = {}
    /\ c.similarity.num = 0
    /\ ~c.ret

\* The quality of article dict a as C15 states it, times QualityUnit, its age
\* taken when the clock shows now
Quality(a, now) ==
  (IF "relevance_score" \in DOMAIN a THEN 12 * a.relevance_score ELSE 0)
    + (IF "processed_at" \in DOMAIN a
         THEN Max(0, 24000 - 100 * (now - a.processed_at))
         ELSE 0)
    + (IF "source" \in DOMAIN a /\ a.source \in {"ArXiv", "OpenAI", "Google AI", "DeepMind"}
         THEN 12000
         ELSE 0)

\* Every x of ret comes before every y of ret
Before(ret, x, y) ==
  \A p, q \in DOMAIN ret : ret[p] = x /\ ret[q] = y => p < q

\* C15: rank_by_quality returns a permutation of its input in non-increasing
\* order of quality = relevance_score + recency_bonus + trust_bonus, the age of
\* an article taken when its key is computed, and articles of equal quality
\* stay in input order
C15_RankedByQuality ==
  \A c \in Range(ranked) :
    LET n == Len(batch)
        q == [i \in 1..n |-> Quality(batch[i], c.reads[i])]
    IN  \E pi \in [1..n -> 1..n] :
          /\ \A p, r \in 1..n : p # r => pi[p] # pi[r]
          /\ c.ret = [p \in 1..n |-> batch[pi[p]]]
          /\ \A p, r \in 1..n :
               p < r => \/ q[pi[p]] > q[pi[r]]
                        \/ q[pi[p]] = q[pi[r]] /\ pi[p] < pi[r]

\* Three different articles: the last of the input has the highest quality and
\* comes first, the other two have equal quality and stay in input order
C15_Witness ==
  \E c \in Range(ranked) :
    /\ Len(batch) = 3
    /\ batch[1] # batch[2]
    /\ c.keys[1] = c.keys[2]
    /\ c.keys[3] > c.keys[1]
    /\ c.ret = <<batch[3], batch[1], batch[2]>>

\* C16: of two articles of one rank_by_quality call with equal relevance_score,
\* the same source and different processed_at, the later processed one comes
\* before the other, whatever their input order and age
C16_MoreRecentFirst ==
  \A c \in Range(ranked) : \A i, j \in DOMAIN batch :
    /\ {"relevance_score", "source", "processed_at"} \subseteq DOMAIN batch[i]
    /\ {"relevance_score", "source", "processed_at"} \subseteq DOMAIN batch[j]
    /\ batch[i].relevance_score = batch[j].relevance_score
    /\ batch[i].source = batch[j].source
    /\ batch[i].processed_at > batch[j].processed_at
    => Before(c.ret, batch[i], batch[j])

\* C17: of two articles of one rank_by_quality call that differ in the source
\* alone, one source trusted and the other not, the trusted one comes first
C17_TrustedSourceFirst ==
  \A c \in Range(ranked) : \A i, j \in DOMAIN batch :
    /\ "source" \in DOMAIN batch[i] /\ "source" \in DOMAIN batch[j]
    /\ batch[i].source \in {"ArXiv", "OpenAI", "Google AI", "DeepMind"}
    /\ batch[j].source \notin {"ArXiv", "OpenAI", "Google AI", "DeepMind"}
    /\ [batch[i] EXCEPT !.source = batch[j].source] = batch[j]
    => Before(c.ret, batch[i], batch[j])

\* The untrusted article is first in the input and second in the output
C17_Witness ==
  \E c \in Range(ranked) :
    /\ Len(batch) = 2
    /\ "source" \in DOMAIN batch[1] /\ "source" \in DOMAIN batch[2]
    /\ batch[1].source = "TechCrunch AI" /\ batch[2].source = "ArXiv"
    /\ [batch[2] EXCEPT !.source = "TechCrunch AI"] = batch[1]
    /\ c.ret = <<batch[2], batch[1]>>

(***************************************************************************)
(* The claims about the articles store.                                    *)
(***************************************************************************)
\* The last save_article call for url u
LastWrite(u) ==
  writes[CHOOSE i \in DOMAIN writes :
           /\ writes[i].args.url = u
           /\ \A j \in DOMAIN writes : writes[j].args.url = u => j <= i]

\* The query asks for the one source and for nothing else, in one page
AsksForSource(q, source) == q = [limit |-> 50, offset |-> 0, sources |-> <<source>>]

\* C18: table articles holds at most one row per url, the one of the last
\* save_article for the url; a search with sources=[source] returns every url
\* last saved with this source exactly once, with the title last saved
C18_OneRecordPerUrl ==
  /\ \A r1, r2 \in db.articles : r1.url = r2.url => r1 = r2
  /\ \A r \in db.articles : r.title = LastWrite(r.url).args.title
  /\ \A c \in Range(searches) : \A w \in Range(writes) :
       AsksForSource(c.q, LastWrite(w.args.url).args.source) =>
         /\ Cardinality({i \in DOMAIN c.ret : c.ret[i].url = w.args.url}) = 1
         /\ \A i \in DOMAIN c.ret :
              c.ret[i].url = w.args.url =>
                c.ret[i].title = LastWrite(w.args.url).args.title

\* A url was saved twice, with two titles, and then searched by its source: the
\* result has it once, with the second title
C18_Witness ==
  \E c \in Range(searches) :
    /\ Len(writes) = 2
    /\ writes[1].args.url = writes[2].args.url
    /\ writes[1].args.title # writes[2].args.title
    /\ AsksForSource(c.q, writes[2].args.source)
    /\ Len(c.ret) = 1
    /\ c.ret[1].title = writes[2].args.title

\* C19: the processed_at of a row is the time of the last save_article for its
\* url, a replaced row included, and the processed_at of successive writes do
\* not decrease (the clock does not go back): a row written later, of greater
\* id, has no earlier processed_at
C19_ProcessedAtIsWriteTime ==
  /\ \A r \in db.articles : r.processed_at = LastWrite(r.url).at
  /\ \A r1, r2 \in db.articles : r1.id < r2.id => r1.processed_at <= r2.processed_at
  /\ \A i, j \in DOMAIN writes : i < j => writes[i].at <= writes[j].at

\* A url saved at one time and again at a later time: its row has the later time
C19_Witness ==
  \E r \in db.articles : \E i, j \in DOMAIN writes :
    /\ i < j
    /\ writes[i].args.url = r.url /\ writes[j].args.url = r.url
    /\ writes[i].at < writes[j].at
    /\ r.processed_at = writes[j].at

\* t occurs in s as it stands
ExactSubstring(t, s) ==
  \E i \in 1..(Len(s) - Len(t) + 1) : SubSeq(s, i, i + Len(t) - 1) = t

\* The pieces of s between the occurrences of the character sep
RECURSIVE PiecesFrom(_, _, _, _)
PiecesFrom(s, sep, i, piece) ==
  IF i > Len(s) THEN <<piece>>
  ELSE IF SubSeq(s, i, i) = sep
         THEN <<piece>> \o PiecesFrom(s, sep, i + 1, "")
         ELSE PiecesFrom(s, sep, i + 1, piece \o SubSeq(s, i, i))

\* piece occurs in s at position i, its letters in either case and each _ of it
\* for any one character
OccursAt(piece, s, i) ==
  /\ i + Len(piece) - 1 <= Len(s)
  /\ \A k \in 1..Len(piece) :
       \/ SubSeq(piece, k, k) = "_"
       \/ lower(SubSeq(piece, k, k)) = lower(SubSeq(s, i + k - 1, i + k - 1))

\* The pieces from the n-th on occur in s one after another, from position i on
RECURSIVE PiecesOccur(_, _, _, _)
PiecesOccur(pieces, n, s, i) ==
  IF n > Len(pieces) THEN TRUE
  ELSE LET at == {k \in i..(Len(s) + 1) : OccursAt(pieces[n], s, k)}
       IN  /\ at # {}
           /\ PiecesOccur(pieces, n + 1, s,
                          (CHOOSE k \in at : \A m \in at : k <= m) + Len(pieces[n]))

\* t occurs in s in the way of LIKE: whatever the case of its letters, each _ of
\* t for any one character and each % of t for any run of characters
LikeSubstring(t, s) == PiecesOccur(PiecesFrom(t, "%", 1, ""), 1, s, 1)

\* Row r satisfies every filter that query q supplies, Occurs telling whether a
\* topic occurs in a serialized topic list.  A list that is empty supplies no
\* filter, and neither does an empty text; a text that is supplied is matched
\* by the full-text index.
Satisfies(r, q, Occurs(_, _)) ==
  /\ "query" \in DOMAIN q /\ q.query # "" => FtsMatch(r, q.query)
  /\ "sources" \in DOMAIN q /\ q.sources # <<>> => r.source \in Range(q.sources)
  /\ "topics" \in DOMAIN q /\ q.topics # <<>> =>
       /\ "topics" \in DOMAIN r
       /\ \E k \in DOMAIN q.topics : Occurs(q.topics[k], r.topics)
  /\ "min_relevance" \in DOMAIN q => r.relevance_score >= q.min_relevance
  /\ "start_date" \in DOMAIN q => q.start_date <= r.processed_at
  /\ "end_date" \in DOMAIN q => r.processed_at <= q.end_date

\* The call returned, each once, the rows that satisfy its query
ReturnsTheRowsThat(c, Occurs(_, _)) ==
  LET rows == {r \in db.articles : Satisfies(r, c.q, Occurs)}
  IN  /\ Len(c.ret) = Cardinality(rows)
      /\ \A r \in rows :
           \E i \in DOMAIN c.ret :
             /\ c.ret[i].id = r.id /\ c.ret[i].url = r.url
             /\ c.ret[i].title = r.title /\ c.ret[i].source = r.source
             /\ c.ret[i].relevance_score = r.relevance_score
             /\ c.ret[i].processed_at = r.processed_at

\* The page of the call takes in the whole table
OnePage(c) == c.q.offset = 0 /\ c.q.limit >= Cardinality(db.articles)

\* C20 as claimed: without pagination, search_articles returns exactly the rows
\* that satisfy every supplied filter, the topics filter asking that a supplied
\* topic is a substring of the serialized topic list
C20_FiltersWithExactSubstring ==
  \A c \in Range(searches) : OnePage(c) => ReturnsTheRowsThat(c, ExactSubstring)

\* C20: without pagination, search_articles returns exactly the rows that
\* satisfy every supplied filter: source a member of sources; a supplied topic
\* occurring in the serialized topic list in the way of LIKE (letters in
\* either case, _ and % of the topic as wildcards); relevance_score >=
\* min_relevance; start_date <= processed_at <= end_date, both optional and
\* inclusive; no filter, or an empty list, excludes nothing
C20_FiltersWithLikeSubstring ==
  \A c \in Range(searches) : OnePage(c) => ReturnsTheRowsThat(c, LikeSubstring)

\* A search for the topic "robotics" returned a row whose topics hold "Robotics"
\* and left out another row
C20_Witness ==
  \E c \in Range(searches) :
    /\ OnePage(c)
    /\ "topics" \in DOMAIN c.q /\ c.q.topics = <<"robotics">>
    /\ Len(c.ret) = 1
    /\ Cardinality(db.articles) >= 2
    /\ \E r \in db.articles :
         /\ r.id = c.ret[1].id
         /\ ExactSubstring("Robotics", r.topics)
         /\ ~ExactSubstring("robotics", r.topics)

\* The call had a text query
WithText(c) == "query" \in DOMAIN c.q /\ c.q.query # ""

\* Entry x of a returned list may come before entry y when the list is ordered
\* by relevance_score descending, then processed_at descending
ByRelevanceThenRecency(x, y) ==
  \/ x.relevance_score > y.relevance_score
  \/ x.relevance_score = y.relevance_score /\ x.processed_at >= y.processed_at

\* C21: what search_articles returns without a text query is ordered by
\* relevance_score descending, ties by processed_at descending; what it returns
\* with a text query is ordered by search_rank first (ascending: the best match
\* has the lowest rank), then by relevance_score descending, then by
\* processed_at descending
C21_SearchOrder ==
  \A c \in Range(searches) : \A i, j \in DOMAIN c.ret :
    i < j =>
      IF WithText(c)
        THEN \/ c.ret[i].search_rank < c.ret[j].search_rank
             \/ /\ c.ret[i].search_rank = c.ret[j].search_rank
                /\ ByRelevanceThenRecency(c.ret[i], c.ret[j])
        ELSE ByRelevanceThenRecency(c.ret[i], c.ret[j])

\* A text search returned two articles, the better match first although its
\* relevance_score is the lower one
C21_Witness ==
  \E c \in Range(searches) :
    /\ WithText(c)
    /\ Len(c.ret) = 2
    /\ c.ret[1].search_rank < c.ret[2].search_rank
    /\ c.ret[1].relevance_score < c.ret[2].relevance_score

\* The ids of the records that call c returned
Ids(c) == {c.ret[i].id : i \in DOMAIN c.ret}

\* The calls are the pages of one walk over the matches of a query: the first at
\* offset 0, each next one limit further
IsWalk ==
  /\ searches # <<>>
  /\ searches[1].q.limit > 0
  /\ searches[1].q.offset = 0

\* C22: for limit > 0 and offset >= 0, search_articles returns the records at
\* positions offset .. offset+limit-1 of the ranked list of the matches, fewer
\* when the list is shorter and never more than limit; the pages at offsets 0,
\* limit, 2*limit, ... over an unchanged store have no record in common, and
\* once they reach the end of the list they hold every match.  The calls of
\* searches have the filters of the first one and differ in the offset.
C22_Pagination ==
  searches # <<>> =>
    LET matching == Filtered(db, searches[1].q)
    IN  /\ \A c \in Range(searches) :
             c.q.limit > 0 /\ c.q.offset >= 0 =>
               /\ Len(c.ret) <= c.q.limit
               /\ Len(c.ret)
                    = Max(0, Min(c.q.limit, Cardinality(matching) - c.q.offset))
               /\ \A i \in DOMAIN c.ret : c.ret[i].id = c.fetched[c.q.offset + i].id
        /\ IsWalk =>
             /\ \A k, m \in DOMAIN searches :
                  k # m => Ids(searches[k]) \cap Ids(searches[m]) = {}
             /\ \A k \in DOMAIN searches :
                  Cardinality(Ids(searches[k])) = Len(searches[k].ret)
             /\ Len(searches) * searches[1].q.limit >= Cardinality(matching)
                  => UNION {Ids(searches[k]) : k \in DOMAIN searches}
                       = {r.id : r \in matching}

\* Three matches, two of them equal in relevance_score and processed_at, were
\* fetched in pages of two: a full page and then a page of one
C22_Witness ==
  /\ IsWalk
  /\ Len(searches) = 2
  /\ searches[1].q.limit = 2
  /\ Len(searches[1].ret) = 2 /\ Len(searches[2].ret) = 1
  /\ searches[1].ret[1].relevance_score = searches[1].ret[2].relevance_score
  /\ searches[1].ret[1].processed_at = searches[1].ret[2].processed_at

\* The shape of query q is wrong: a negative limit, a negative offset, or a
\* date range that starts after its end
Malformed(q) ==
  \/ q.limit < 0
  \/ q.offset < 0
  \/ "start_date" \in DOMAIN q /\ "end_date" \in DOMAIN q /\ q.start_date > q.end_date

\* C23: a query with a negative limit, a negative offset or a date range whose
\* start is after its end is rejected before the store is accessed:
\* search_articles executes no statement for it and returns no list
C23_MalformedQueryRejected ==
  \A c \in Range(searches) : Malformed(c.q) => "ret" \notin DOMAIN c

LongWordsOf(c) ==
  LET words == FindAllWordsList(lower(c.title), 1, "")
  IN  {i \in DOMAIN words : Len(words[i]) > 4}

\* C26: when the title has more than five words longer than 4 characters, the
\* five words of the OR-query are the five longest of them: no word that is
\* left out is longer than a word that is used; when the title has no such
\* word, find_similar_articles returns the empty list and queries nothing
C26_QueryOfFiveLongestWords ==
  \A c \in Range(similar) :
    LET words == FindAllWordsList(lower(c.title), 1, "")
        used == Range(c.significant_words)
    IN  /\ Cardinality(LongWordsOf(c)) > 5 =>
             /\ Len(c.significant_words) = 5
             /\ c.query = JoinOr(c.significant_words)
             /\ \A i \in LongWordsOf(c) :
                  words[i] \notin used => \A w \in used : Len(words[i]) <= Len(w)
        /\ LongWordsOf(c) = {} => c.ret = <<>> /\ searches = <<>>

(***************************************************************************)
(* The claims about the processing cycles.                                 *)
(***************************************************************************)
\* The n-th article that cycle c processed was not delivered: summarize raised
\* or send_message returned False
NotDelivered(c, n) ==
  /\ n \in DOMAIN cycles[c].outcomes
  /\ cycles[c].outcomes[n] \in {"summarize raised", "send failed"}

C27_CyclesDoNotOverlap ==
  /\ Cardinality(Running) <= 1
  /\ \A c \in DOMAIN cycles : ~cycles[c].overlapped

\* Article x of a batch is from a source of the trusted set and y is not
TrustedOver(x, y) ==
  x.source \in trusted_sources /\ y.source \notin trusted_sources

\* The position of the article of url u in list l, 0 when it is not there
PositionOf(l, u) ==
  IF \E n \in DOMAIN l : l[n].url = u
    THEN CHOOSE n \in DOMAIN l : l[n].url = u
    ELSE 0

\* C28: in a cycle, rank_by_quality is given what remove_duplicates returned,
\* and of two articles that remove_duplicates kept, equal in relevance_score,
\* the one from a trusted source is ranked first, is processed first, and is
\* kept by the cut to max_articles_per_run when the other is
C28_TrustedFirstInCycle ==
  \A c \in DOMAIN cycles :
    LET cycle == cycles[c]
    IN  /\ Range(cycle.ranked_articles) = Range(cycle.unique_articles)
        /\ \A m, n \in DOMAIN cycle.unique_articles :
             LET x == cycle.unique_articles[m].article_obj
                 y == cycle.unique_articles[n].article_obj
             IN  x.relevance_score = y.relevance_score /\ TrustedOver(x, y) =>
                   /\ PositionOf(cycle.ranked_articles, x.url)
                        < PositionOf(cycle.ranked_articles, y.url)
                   /\ PositionOf(cycle.new_articles, y.url) > 0 =>
                        /\ PositionOf(cycle.new_articles, x.url) > 0
                        /\ PositionOf(cycle.new_articles, x.url)
                             < PositionOf(cycle.new_articles, y.url)

\* C29: each url is delivered at most once: no two send_message calls that
\* returned True, in one cycle or in two, were for the same url
C29_DeliveredAtMostOnce ==
  \A m, n \in DOMAIN sent : m # n => sent[m].url # sent[n].url

(***************************************************************************)
(* The claims about the Telegram bot.                                      *)
(***************************************************************************)
\* C30: every part that _split_message_intelligently returns is at most
\* max_length long, so that no _send_single_message call of send_message
\* carries more than max_length characters
C30_PartsFitMaxLength ==
  \A c \in Range(splits) : \A n \in DOMAIN c.ret : Len(c.ret[n]) <= max_length

=============================================================================
